---------------------------- MODULE Spec2Model ----------------------------
(***************************************************************************)
(* Saffron: the bounded recommendation loop (runRecommendationLoop), the   *)
(* tool executor (executeToolCall) with its guardrail evaluator, and the   *)
(* decision endpoint (POST /api/ads-agent/decide) that executes approved   *)
(* proposals against Google Ads.                                           *)
(***************************************************************************)
EXTENDS Integers, Sequences, FiniteSets, TLC

(***************************************************************************)
(* JavaScript values.  A value is undefined, a string or a number.  A      *)
(* string is a sequence of one-character strings, so that includes(),      *)
(* toLowerCase(), the /^\d+$/ test and Number() are computed on the        *)
(* characters.                                                             *)
(***************************************************************************)
Undef == [t |-> "undefined", s |-> <<>>, n |-> 0]

Str(chars) == [t |-> "string", s |-> chars, n |-> 0]

Num(k) == [t |-> "number", s |-> <<>>, n |-> k]

\* JavaScript truthiness: undefined, "" and 0 are falsy.
Truthy(x) ==
  CASE x.t = "undefined" -> FALSE
    [] x.t = "string"    -> x.s # <<>>
    [] x.t = "number"    -> x.n # 0

Digits == <<"0", "1", "2", "3", "4", "5", "6", "7", "8", "9">>

IsDigit(c) == \E i \in 1..Len(Digits) : Digits[i] = c

DigitValue(c) == (CHOOSE i \in 1..Len(Digits) : Digits[i] = c) - 1

\* /^\d+$/.test(chars)
IsDigits(chars) == Len(chars) > 0 /\ \A i \in 1..Len(chars) : IsDigit(chars[i])

RECURSIVE DigitsToNat(_)
DigitsToNat(chars) ==
  IF chars = <<>> THEN 0
  ELSE 10 * DigitsToNat(SubSeq(chars, 1, Len(chars) - 1)) + DigitValue(chars[Len(chars)])

RECURSIVE NatToDigits(_)
NatToDigits(k) ==
  IF k < 10 THEN <<Digits[k + 1]>>
  ELSE Append(NatToDigits(k \div 10), Digits[(k % 10) + 1])

\* Number(x): [nan, v].  A string of digits is its value, "" is 0, any other
\* string of the alphabet used here is NaN; undefined is NaN.
ToNumber(x) ==
  CASE x.t = "number"    -> [nan |-> FALSE, v |-> x.n]
    [] x.t = "undefined" -> [nan |-> TRUE, v |-> 0]
    [] x.t = "string"    ->
         IF x.s = <<>> THEN [nan |-> FALSE, v |-> 0]
         ELSE IF IsDigits(x.s) THEN [nan |-> FALSE, v |-> DigitsToNat(x.s)]
         ELSE [nan |-> TRUE, v |-> 0]

\* String(x), for the non-negative numbers used here.
ToStr(x) ==
  CASE x.t = "string"    -> x.s
    [] x.t = "number"    -> NatToDigits(x.n)
    [] x.t = "undefined" -> <<"u", "n", "d", "e", "f", "i", "n", "e", "d">>

UpperCase == <<"A", "B", "C", "D", "E", "F", "G", "H", "I", "J", "K", "L", "M",
               "N", "O", "P", "Q", "R", "S", "T", "U", "V", "W", "X", "Y", "Z">>

LowerCase == <<"a", "b", "c", "d", "e", "f", "g", "h", "i", "j", "k", "l", "m",
               "n", "o", "p", "q", "r", "s", "t", "u", "v", "w", "x", "y", "z">>

LowerChar(c) ==
  IF \E i \in 1..Len(UpperCase) : UpperCase[i] = c
  THEN LowerCase[CHOOSE i \in 1..Len(UpperCase) : UpperCase[i] = c]
  ELSE c

\* chars.toLowerCase()
ToLowerCase(chars) == [i \in 1..Len(chars) |-> LowerChar(chars[i])]

\* chars.includes(term)
Includes(chars, term) ==
  \E k \in 0..(Len(chars) - Len(term)) :
     \A i \in 1..Len(term) : chars[k + i] = term[i]

\* Strategic-industry vocabulary.
INDUSTRY_TERMS ==
    <<
       <<"m","e","a","t">>,
       <<"b","e","e","f">>,
       <<"p","o","r","k">>,
       <<"p","o","u","l","t","r","y">>,
       <<"c","h","i","c","k","e","n">>,
       <<"t","u","r","k","e","y">>,
       <<"l","a","m","b">>,
       <<"s","a","u","s","a","g","e">>,
       <<"d","e","l","i">>,
       <<"b","u","t","c","h","e","r">>,
       <<"s","l","a","u","g","h","t","e","r">>,
       <<"p","r","o","t","e","i","n">>,
       <<"s","e","a","f","o","o","d">>,
       <<"f","i","s","h">>,
       <<"s","h","r","i","m","p">>,
       <<"s","a","l","m","o","n">>,
       <<"t","u","n","a">>,
       <<"s","h","e","l","l","f","i","s","h">>,
       <<"a","q","u","a","c","u","l","t","u","r","e">>,
       <<"d","a","i","r","y">>,
       <<"m","i","l","k">>,
       <<"c","h","e","e","s","e">>,
       <<"y","o","g","u","r","t">>,
       <<"c","r","e","a","m">>,
       <<"b","u","t","t","e","r">>,
       <<"w","h","e","y">>,
       <<"b","a","k","e","r","y">>,
       <<"b","r","e","a","d">>,
       <<"p","a","s","t","r","y">>,
       <<"c","o","n","f","e","c","t","i","o","n","e","r","y">>,
       <<"s","n","a","c","k">>,
       <<"b","r","e","w","e","r","y">>,
       <<"b","e","v","e","r","a","g","e">>,
       <<"w","i","n","e">>,
       <<"d","i","s","t","i","l","l","e","r","y">>,
       <<"j","u","i","c","e">>,
       <<"b","o","t","t","l","i","n","g">>,
       <<"f","o","o","d"," ","p","r","o","c","e","s","s","i","n","g">>,
       <<"f","o","o","d"," ","m","a","n","u","f","a","c","t","u","r","i","n","g">>,
       <<"f","o","o","d"," ","p","r","o","d","u","c","t","i","o","n">>,
       <<"f","o","o","d"," ","s","a","f","e","t","y">>,
       <<"f","o","o","d"," ","a","n","d"," ","b","e","v","e","r","a","g","e">>,
       <<"f","o","o","d"," ","&"," ","b","e","v","e","r","a","g","e">>,
       <<"f","&","b">>,
       <<"f","o","o","d"," ","i","n","d","u","s","t","r","y">>,
       <<"h","a","c","c","p">>,
       <<"u","s","d","a">>,
       <<"f","d","a">>,
       <<"g","f","s","i">>,
       <<"s","q","f">>,
       <<"b","r","c">>,
       <<"f","s","m","a">>,
       <<"f","o","o","d"," ","t","r","a","c","e","a","b","i","l","i","t","y">>,
       <<"l","o","t"," ","t","r","a","c","k","i","n","g">>,
       <<"c","a","t","c","h"," ","w","e","i","g","h","t">>,
       <<"e","r","p"," ","f","o","r"," ","f","o","o","d">>,
       <<"e","r","p"," ","f","o","r"," ","m","e","a","t">>,
       <<"e","r","p"," ","f","o","r"," ","d","a","i","r","y">>,
       <<"e","r","p"," ","f","o","r"," ","s","e","a","f","o","o","d">>,
       <<"e","r","p"," ","f","o","r"," ","b","a","k","e","r","y">>,
       <<"e","r","p"," ","f","o","r"," ","b","e","v","e","r","a","g","e">>,
       <<"f","o","o","d"," ","e","r","p">>,
       <<"m","e","a","t"," ","e","r","p">>,
       <<"f","o","o","d"," ","s","o","f","t","w","a","r","e">>,
       <<"m","e","a","t"," ","s","o","f","t","w","a","r","e">>
    >>

(***************************************************************************)
(* Guardrail evaluator: executeToolCall, case 'evaluate_recommendation'.   *)
(* action_detail is [defined, f]: f maps each field name to its value      *)
(* (Undef when the field is absent); defined is FALSE when the tool input  *)
(* carries no action_detail at all.  The context holds the session's       *)
(* campaign and ad snapshots.                                              *)
(***************************************************************************)
DetailFields == {"new_amount_micros", "new_bid_micros", "keyword_text",
                 "campaign_id", "ad_group_id", "ad_id", "criterion_id", "budget_id"}

NoFields == [f \in DetailFields |-> Undef]

Detail(fields) == [defined |-> TRUE, f |-> fields]

NoDetail == [defined |-> FALSE, f |-> NoFields]

MICROS_PER_DOLLAR == 1000000

BUDGET_FLOOR_DOLLARS == 25

\* microsToDollars(micros) < dollars, on the micros (the division by 1_000_000
\* is monotonic and exact enough for whole micros); NaN compares false.
MicrosBelowDollars(x, dollars) ==
  LET m == ToNumber(x) IN ~m.nan /\ m.v < dollars * MICROS_PER_DOLLAR

Violation(rule, field) == [rule |-> rule, field |-> field]

BudgetFloorViolations(actionType, d) ==
  IF actionType = "adjust_budget" /\ Truthy(d["new_amount_micros"])
     /\ MicrosBelowDollars(d["new_amount_micros"], BUDGET_FLOOR_DOLLARS)
  THEN <<Violation("budget_floor", "new_amount_micros")>>
  ELSE <<>>

\* The current bid is never found (currentKw is always undefined): a warning only.
BidCapWarnings(actionType, d) ==
  IF actionType = "adjust_bid" /\ Truthy(d["new_bid_micros"])
  THEN <<"bid_cap_not_validated">>
  ELSE <<>>

IsStrategic(kwText) ==
  \E i \in 1..Len(INDUSTRY_TERMS) : Includes(kwText, INDUSTRY_TERMS[i])

KeywordRuleApplies_PauseOnly(actionType, d) ==
  actionType = "pause_keyword" /\ Truthy(d["keyword_text"])

KeywordRuleApplies(actionType, d) ==
  actionType \in {"pause_keyword", "add_negative_keyword"} /\ Truthy(d["keyword_text"])

KeywordViolations(actionType, d) ==
  IF KeywordRuleApplies(actionType, d)
     /\ IsStrategic(ToLowerCase(d["keyword_text"].s))
  THEN <<Violation("keyword_rehabilitation", "keyword_text")>>
  ELSE <<>>

ProtectedCampaignViolations(actionType, d, ctx) ==
  IF actionType = "pause_campaign"
     /\ \E i \in 1..Len(ctx.layer1Campaigns) :
          /\ ctx.layer1Campaigns[i].campaignId = ToStr(d["campaign_id"])
          /\ \A j \in 1..(i - 1) :
               ctx.layer1Campaigns[j].campaignId # ToStr(d["campaign_id"])
          /\ ctx.layer1Campaigns[i].conversions > 0
  THEN <<Violation("pause_campaign_with_conversions", "campaign_id")>>
  ELSE <<>>

ActiveAdsInGroup(d, ctx) ==
  {i \in 1..Len(ctx.layer1Ads) :
     /\ ctx.layer1Ads[i].adGroupId = ToStr(d["ad_group_id"])
     /\ ctx.layer1Ads[i].status = "ENABLED"}

LastActiveAdViolations_NoneLeft(actionType, d, ctx) ==
  IF actionType = "pause_ad" /\ Cardinality(ActiveAdsInGroup(d, ctx)) < 1
  THEN <<Violation("last_active_ad", "ad_group_id")>>
  ELSE <<>>

LastActiveAdViolations(actionType, d, ctx) ==
  IF actionType = "pause_ad" /\ Cardinality(ActiveAdsInGroup(d, ctx)) <= 1
  THEN <<Violation("last_active_ad", "ad_group_id")>>
  ELSE <<>>

idFields == <<"campaign_id", "ad_group_id", "ad_id", "criterion_id", "budget_id">>

InvalidId(val) == Truthy(val) /\ ~IsDigits(ToStr(val))

RECURSIVE IdViolations(_, _)
IdViolations(d, k) ==
  IF k > Len(idFields) THEN <<>>
  ELSE (IF InvalidId(d[idFields[k]])
        THEN <<Violation("invalid_id", idFields[k])>> ELSE <<>>)
       \o IdViolations(d, k + 1)

\* The evaluation dereferences action_detail without a guard, and calls
\* toLowerCase() on keyword_text whatever its type: a TypeError is thrown
\* when action_detail is missing or keyword_text is a (non-zero) number.
EvaluateThrows(input) ==
  \/ ~input.action_detail.defined
  \/ /\ KeywordRuleApplies(input.action_type, input.action_detail.f)
     /\ input.action_detail.f["keyword_text"].t # "string"

EvaluateViolations_FirstOnly(input, ctx) ==
  LET d == input.action_detail.f
      a == input.action_type
      all == BudgetFloorViolations(a, d) \o KeywordViolations(a, d)
               \o ProtectedCampaignViolations(a, d, ctx) \o LastActiveAdViolations(a, d, ctx)
               \o IdViolations(d, 1) IN
  IF all = <<>> THEN <<>> ELSE <<all[1]>>

EvaluateViolations(input, ctx) ==
  LET d == input.action_detail.f
      a == input.action_type IN
  BudgetFloorViolations(a, d) \o KeywordViolations(a, d)
    \o ProtectedCampaignViolations(a, d, ctx) \o LastActiveAdViolations(a, d, ctx)
    \o IdViolations(d, 1)

EvaluateRecommendation(input, ctx) ==
  LET violations == EvaluateViolations(input, ctx) IN
  [kind |-> "evaluation",
   passes |-> violations = <<>>,
   violations |-> violations,
   warnings |-> BidCapWarnings(input.action_type, input.action_detail.f)]

(***************************************************************************)
(* Tool inputs.  One shape for every tool: the fields a tool does not use  *)
(* are absent (undefined).                                                 *)
(***************************************************************************)
UNDEFINED == "<undefined>"

Proposal(actionType, detail) == [action_type |-> actionType, action_detail |-> detail]

NoProposals == [defined |-> FALSE, items |-> <<>>]

Proposals(items) == [defined |-> TRUE, items |-> items]

ToolInput(proposals, reason, actionType, detail) ==
  [proposals |-> proposals, reason |-> reason,
   action_type |-> actionType, action_detail |-> detail]

ToolBlock(name, input) == [name |-> name, input |-> input]

(***************************************************************************)
(* executeToolCall.  Only evaluate_recommendation, the terminal tools and  *)
(* the default branch are computed; the tools that query collaborators     *)
(* return an opaque payload, or {error} when the collaborator fails        *)
(* inside their try block.                                                 *)
(***************************************************************************)
ErrorResult(msg) ==
  [kind |-> "error", passes |-> FALSE, violations |-> <<>>, warnings |-> <<>>,
   error |-> msg]

DataResult(kind) ==
  [kind |-> kind, passes |-> FALSE, violations |-> <<>>, warnings |-> <<>>,
   error |-> ""]

EvaluationResult(input, ctx) ==
  LET e == EvaluateRecommendation(input, ctx) IN
  [kind |-> "evaluation", passes |-> e.passes, violations |-> e.violations,
   warnings |-> e.warnings, error |-> ""]

KnownTools == {"check_signal_bus", "get_historical_performance",
               "check_reallocation_impact", "evaluate_recommendation",
               "submit_recommendations", "skip_recommendations"}

\* Does the call reject (throw) instead of returning {result, call}?
ExecuteToolCallThrows(toolName, input) ==
  toolName = "evaluate_recommendation" /\ EvaluateThrows(input)

\* The result of a call that returns; collaboratorFails is the outcome of
\* the collaborator's I/O.
ExecuteToolCallResult(toolName, input, ctx, collaboratorFails) ==
  CASE toolName = "check_signal_bus" -> DataResult("signals")
    [] toolName = "get_historical_performance" ->
         IF collaboratorFails THEN ErrorResult("Failed to fetch historical data")
         ELSE DataResult("history")
    [] toolName = "check_reallocation_impact" ->
         IF collaboratorFails THEN ErrorResult("Failed to check reallocation impact")
         ELSE DataResult("reallocation")
    [] toolName = "evaluate_recommendation" -> EvaluationResult(input, ctx)
    [] toolName \in {"submit_recommendations", "skip_recommendations"} ->
         DataResult("acknowledged")
    [] OTHER -> ErrorResult("Unknown tool")

AgentToolCall(toolName, input, output) ==
  [tool_name |-> toolName, input |-> input, output |-> output]

(***************************************************************************)
(* The recommendation loop: runRecommendationLoop.                         *)
(***************************************************************************)
MAX_TOOL_CALLS == 5

MAX_DURATION_MS == 30000

\* A non-terminal tool is refused when fewer than this many ms remain.
MIN_TIME_REMAINING_MS == 3000

\* Granularity of the clock, and the longest call, in ticks.
TickMs == 5000

MaxCallTicks == 2

\* The most tool_use blocks in one response of the reasoning step.
MaxBlocks == 3

VARIABLES
  pc,             \* where the session is: "top", "reasoning", "blocks", "done", "thrown"
  now,            \* Date.now() - startTime, in ms
  iterations,
  toolCalls,      \* the ToolCall log
  messages,       \* messages.length
  idx,            \* position of the for loop in toolUseBlocks (1 is the first block)
  toolResults,    \* tool_result contents of the current turn
  terminalResult,
  result,         \* the value the promise resolves to
  lastCall,       \* history: the call (reasoning step or tool) started last
  lastSubmit      \* history: input of the submit_recommendations call handled last

loopVars == <<pc, now, iterations, toolCalls, messages, idx, toolResults,
              terminalResult, result, lastCall, lastSubmit>>

NoResult ==
  [set |-> FALSE, action |-> "", proposals |-> <<>>, skip_reason |-> <<>>,
   iterations |-> 0, tools_used |-> {}, tool_calls |-> <<>>]

ToolsUsed(calls) == {calls[i].tool_name : i \in 1..Len(calls)}

\* Mutant: the submit result loses the proposals of the call.
buildSubmitResult_NoProposals(input, calls, iters) ==
  [set |-> TRUE, action |-> "submit", proposals |-> <<>>, skip_reason |-> <<>>,
   iterations |-> iters, tools_used |-> ToolsUsed(calls), tool_calls |-> calls]

buildSubmitResult(input, calls, iters) ==
  [set |-> TRUE, action |-> "submit",
   proposals |-> IF input.proposals.defined THEN input.proposals.items ELSE <<>>,
   skip_reason |-> <<>>,
   iterations |-> iters, tools_used |-> ToolsUsed(calls), tool_calls |-> calls]

buildSkipResult(input, calls, iters) ==
  [set |-> TRUE, action |-> "skip", proposals |-> <<>>,
   skip_reason |-> IF input.reason \in {UNDEFINED, ""} THEN <<"Skipped">> ELSE <<input.reason>>,
   iterations |-> iters, tools_used |-> ToolsUsed(calls), tool_calls |-> calls]

forceTermination(calls, iters, reason) ==
  [set |-> TRUE, action |-> "skip", proposals |-> <<>>,
   skip_reason |-> <<"Forced termination: ", reason>>,
   iterations |-> iters, tools_used |-> ToolsUsed(calls), tool_calls |-> calls]

\* tool_calls of a built result is the toolCalls array itself, not a copy: the
\* caller sees the log as it is when the function returns.
Returned(r, calls) == [r EXCEPT !.tool_calls = calls]

TimeBudgetExceeded == now > MAX_DURATION_MS

\* Mutant: the check at the top of the loop lets a turn start with the log full.
ToolBudgetExceeded_OffByOne == Len(toolCalls) > MAX_TOOL_CALLS

\* The check at the top of the loop, and the check before a tool is executed.
ToolBudgetExceeded == Len(toolCalls) >= MAX_TOOL_CALLS

\* Mutant: the check before a tool is executed lets one call too many through.
NoToolCallsLeft_OffByOne == Len(toolCalls) > MAX_TOOL_CALLS

NoToolCallsLeft == Len(toolCalls) >= MAX_TOOL_CALLS

\* Mutant: no time check before a tool is executed.
TimeNearlyExceeded_Never == FALSE

TimeNearlyExceeded == MAX_DURATION_MS - now < MIN_TIME_REMAINING_MS

NoCall == [kind |-> "none", outcome |-> "none"]

\* The session's snapshot of campaigns and ads (ToolContext).
LoopContext ==
  [layer1Campaigns |-> <<[campaignId |-> <<"1", "1">>, conversions |-> 2],
                         [campaignId |-> <<"1", "2">>, conversions |-> 0]>>,
   layer1Ads |-> <<[adGroupId |-> <<"7">>, status |-> "ENABLED"],
                   [adGroupId |-> <<"8">>, status |-> "ENABLED"],
                   [adGroupId |-> <<"8">>, status |-> "ENABLED"]>>]

BudgetDetail(micros) ==
  Detail([NoFields EXCEPT !["budget_id"] = Str(<<"4", "2">>),
                          !["new_amount_micros"] = Str(micros)])

\* adjust_budget to $30/day and to $10/day
SafeProposal == Proposal("adjust_budget", BudgetDetail(<<"3", "0", "0", "0", "0", "0", "0", "0">>))

UnsafeProposal == Proposal("adjust_budget", BudgetDetail(<<"1", "0", "0", "0", "0", "0", "0", "0">>))

EvaluateInput(p) == ToolInput(NoProposals, UNDEFINED, p.action_type, p.action_detail)

\* The tool inputs of this model, by name: blocks and ToolCall records hold the
\* name of their input object, InputOf gives the object.
InputNames == {"submit_safe", "submit_unsafe", "submit_nothing", "skip_healthy",
               "evaluate_unsafe", "evaluate_no_detail", "empty"}

InputOf(name) ==
  CASE name = "submit_safe" ->
         ToolInput(Proposals(<<SafeProposal>>), UNDEFINED, UNDEFINED, NoDetail)
    [] name = "submit_unsafe" ->
         ToolInput(Proposals(<<UnsafeProposal>>), UNDEFINED, UNDEFINED, NoDetail)
    [] name = "submit_nothing" ->
         ToolInput(NoProposals, UNDEFINED, UNDEFINED, NoDetail)
    [] name = "skip_healthy" ->
         ToolInput(NoProposals, "healthy account", UNDEFINED, NoDetail)
    [] name = "evaluate_unsafe" -> EvaluateInput(UnsafeProposal)
    [] name = "evaluate_no_detail" ->
         ToolInput(NoProposals, UNDEFINED, "adjust_budget", NoDetail)
    [] name = "empty" ->
         ToolInput(NoProposals, UNDEFINED, UNDEFINED, NoDetail)

\* The tool_use blocks the reasoning step may request in this model.
TerminalBlocks ==
  {ToolBlock("submit_recommendations", "submit_safe"),
   ToolBlock("submit_recommendations", "submit_unsafe"),
   ToolBlock("submit_recommendations", "submit_nothing"),
   ToolBlock("skip_recommendations", "skip_healthy")}

InvestigationBlocks ==
  {ToolBlock("evaluate_recommendation", "evaluate_unsafe"),
   ToolBlock("evaluate_recommendation", "evaluate_no_detail"),
   ToolBlock("lookup_weather", "empty")}

LoopBlocks == TerminalBlocks \cup InvestigationBlocks

CallDurations == {k * TickMs : k \in 0..MaxCallTicks}

\* The reasoning step takes time: at least one tick.
ReasoningDurations == CallDurations \ {0}

LoopInit ==
  /\ pc = "top"
  /\ now = 0
  /\ iterations = 0
  /\ toolCalls = <<>>
  /\ messages = 1
  /\ idx = 0
  /\ toolResults = <<>>
  /\ terminalResult = NoResult
  /\ result = NoResult
  /\ lastCall = NoCall
  /\ lastSubmit = "empty"

\* Mutant: the result is built and kept, and the while loop is not left.
Return_StaysInLoop(r) ==
  /\ pc' = "top"
  /\ result' = Returned(r, toolCalls')

\* return r
Return(r) ==
  /\ pc' = "done"
  /\ result' = Returned(r, toolCalls')

\* Top of the while loop, time budget exceeded.
ForceTimeBudget ==
  /\ pc = "top"
  /\ TimeBudgetExceeded
  /\ iterations' = iterations + 1
  /\ UNCHANGED toolCalls
  /\ Return(forceTermination(toolCalls, iterations + 1, "Time budget exceeded"))
  /\ UNCHANGED <<now, messages, idx, toolResults, terminalResult, lastCall, lastSubmit>>

\* Top of the while loop, tool-call budget used up.
ForceToolBudget ==
  /\ pc = "top"
  /\ ~TimeBudgetExceeded
  /\ ToolBudgetExceeded
  /\ iterations' = iterations + 1
  /\ UNCHANGED toolCalls
  /\ Return(forceTermination(toolCalls, iterations + 1, "Tool call budget exceeded"))
  /\ UNCHANGED <<now, messages, idx, toolResults, terminalResult, lastCall, lastSubmit>>

\* Top of the while loop, both budgets left: anthropic.messages.create is called.
CallReasoning ==
  /\ pc = "top"
  /\ ~TimeBudgetExceeded
  /\ ~ToolBudgetExceeded
  /\ iterations' = iterations + 1
  /\ pc' = "reasoning"
  /\ lastCall' = [kind |-> "reasoning", outcome |-> "pending"]
  /\ UNCHANGED <<now, toolCalls, messages, idx, toolResults, terminalResult,
                 result, lastSubmit>>

\* The call returns, after d ms, a response with at least one tool_use block.
\* The loop never looks ahead in toolUseBlocks: the blocks are drawn one at a
\* time as the for loop reaches them, MaxBlocks at most.
ReasoningReturns(d) ==
  /\ pc = "reasoning"
  /\ now' = now + d
  /\ lastCall' = [lastCall EXCEPT !.outcome = "blocks"]
  /\ pc' = "blocks"
  /\ idx' = 1
  /\ toolResults' = <<>>
  /\ terminalResult' = NoResult
  /\ UNCHANGED <<iterations, toolCalls, messages, result, lastSubmit>>

\* Mutant: a response without tool calls is appended and the loop goes on.
ReasoningSilent_KeepsLooping(d, stopReason) ==
  /\ pc = "reasoning"
  /\ now' = now + d
  /\ lastCall' = [lastCall EXCEPT !.outcome = "silent"]
  /\ messages' = messages + 2
  /\ pc' = "top"
  /\ UNCHANGED <<iterations, toolCalls, idx, toolResults, terminalResult, result, lastSubmit>>

\* The call returns a response without tool_use blocks.
ReasoningSilent(d, stopReason) ==
  /\ pc = "reasoning"
  /\ now' = now + d
  /\ lastCall' = [lastCall EXCEPT !.outcome = "silent"]
  /\ UNCHANGED toolCalls
  /\ Return(forceTermination(toolCalls, iterations,
                             IF stopReason = "end_turn"
                             THEN "Agent ended without calling a terminal tool"
                             ELSE "No tool calls in response"))
  /\ UNCHANGED <<iterations, messages, idx, toolResults, terminalResult, lastSubmit>>

\* The call rejects (network error, API error, malformed response): nothing
\* catches it, the promise of runRecommendationLoop rejects.
ReasoningFails(d) ==
  /\ pc = "reasoning"
  /\ now' = now + d
  /\ lastCall' = [lastCall EXCEPT !.outcome = "failed"]
  /\ pc' = "thrown"
  /\ UNCHANGED <<iterations, toolCalls, messages, idx, toolResults,
                 terminalResult, result, lastSubmit>>

\* The for loop has a block at position idx; it has reached the end of the blocks.
InBlocks == pc = "blocks" /\ idx <= MaxBlocks

EndOfBlocks == pc = "blocks" /\ idx > 1

NextBlock ==
  /\ idx' = idx + 1
  /\ UNCHANGED <<pc, now, iterations, messages, result>>

BudgetRefusal ==
  ErrorResult("Tool call budget exceeded. You must call submit_recommendations or skip_recommendations now.")

TimeRefusal ==
  ErrorResult("Time budget nearly exceeded. You must call submit_recommendations or skip_recommendations now.")

Acknowledged == DataResult("acknowledged")

HandleSubmit(b) ==
  /\ InBlocks
  /\ b.name = "submit_recommendations"
  /\ terminalResult' = buildSubmitResult(InputOf(b.input), toolCalls, iterations)
  /\ toolResults' = Append(toolResults, Acknowledged)
  /\ lastSubmit' = b.input
  /\ NextBlock
  /\ UNCHANGED <<toolCalls, lastCall>>

HandleSkip(b) ==
  /\ InBlocks
  /\ b.name = "skip_recommendations"
  /\ terminalResult' = buildSkipResult(InputOf(b.input), toolCalls, iterations)
  /\ toolResults' = Append(toolResults, Acknowledged)
  /\ NextBlock
  /\ UNCHANGED <<toolCalls, lastCall, lastSubmit>>

IsTerminal(b) == b.name \in {"submit_recommendations", "skip_recommendations"}

RefuseToolBudget(b) ==
  /\ InBlocks
  /\ ~IsTerminal(b)
  /\ NoToolCallsLeft
  /\ toolResults' = Append(toolResults, BudgetRefusal)
  /\ NextBlock
  /\ UNCHANGED <<toolCalls, terminalResult, lastCall, lastSubmit>>

\* Mutant: the time refusal is thrown instead of being pushed as a tool result.
RefuseTime_Throws(b) ==
  /\ InBlocks
  /\ ~IsTerminal(b)
  /\ ~NoToolCallsLeft
  /\ TimeNearlyExceeded
  /\ pc' = "thrown"
  /\ UNCHANGED <<now, iterations, messages, idx, toolResults, result,
                 toolCalls, terminalResult, lastCall, lastSubmit>>

RefuseTime(b) ==
  /\ InBlocks
  /\ ~IsTerminal(b)
  /\ ~NoToolCallsLeft
  /\ TimeNearlyExceeded
  /\ toolResults' = Append(toolResults, TimeRefusal)
  /\ NextBlock
  /\ UNCHANGED <<toolCalls, terminalResult, lastCall, lastSubmit>>

CanExecute(b) == InBlocks /\ ~IsTerminal(b) /\ ~NoToolCallsLeft /\ ~TimeNearlyExceeded

\* await executeToolCall(...) returns after d ms.
ExecuteTool(b, d) ==
  /\ CanExecute(b)
  /\ ~ExecuteToolCallThrows(b.name, InputOf(b.input))
  /\ LET out == ExecuteToolCallResult(b.name, InputOf(b.input), LoopContext, FALSE) IN
       /\ toolCalls' = Append(toolCalls, AgentToolCall(b.name, b.input, out))
       /\ toolResults' = Append(toolResults, out)
  /\ now' = now + d
  /\ lastCall' = [kind |-> "tool", outcome |-> "returned"]
  /\ idx' = idx + 1
  /\ UNCHANGED <<pc, iterations, messages, result, terminalResult, lastSubmit>>

\* await executeToolCall(...) rejects: nothing catches it.
ExecuteToolThrows(b, d) ==
  /\ CanExecute(b)
  /\ ExecuteToolCallThrows(b.name, InputOf(b.input))
  /\ now' = now + d
  /\ lastCall' = [kind |-> "tool", outcome |-> "failed"]
  /\ pc' = "thrown"
  /\ UNCHANGED <<iterations, toolCalls, messages, idx, toolResults,
                 terminalResult, result, lastSubmit>>

\* After the for loop: a terminal tool was called.
ReturnTerminal ==
  /\ EndOfBlocks
  /\ terminalResult.set
  /\ UNCHANGED toolCalls
  /\ Return(terminalResult)
  /\ UNCHANGED <<now, iterations, messages, idx, toolResults, terminalResult,
                 lastCall, lastSubmit>>

\* After the for loop: no terminal tool, the turn's messages are appended.
ContinueLoop ==
  /\ EndOfBlocks
  /\ ~terminalResult.set
  /\ messages' = messages + 2
  /\ pc' = "top"
  /\ UNCHANGED <<now, iterations, toolCalls, idx, toolResults, terminalResult,
                 result, lastCall, lastSubmit>>

LoopNext ==
  \/ ForceTimeBudget
  \/ ForceToolBudget
  \/ CallReasoning
  \/ \E d \in ReasoningDurations : ReasoningReturns(d)
  \/ \E d \in ReasoningDurations, s \in {"end_turn", "max_tokens"} : ReasoningSilent(d, s)
  \/ \E d \in ReasoningDurations : ReasoningFails(d)
  \/ \E b \in LoopBlocks : HandleSubmit(b)
  \/ \E b \in LoopBlocks : HandleSkip(b)
  \/ \E b \in LoopBlocks : RefuseToolBudget(b)
  \/ \E b \in LoopBlocks : RefuseTime(b)
  \/ \E b \in LoopBlocks, d \in CallDurations : ExecuteTool(b, d)
  \/ \E b \in LoopBlocks, d \in CallDurations : ExecuteToolThrows(b, d)
  \/ ReturnTerminal
  \/ ContinueLoop

(***************************************************************************)
(* The decision queue: writeProposals (run route) creates pending items,   *)
(* POST /api/ads-agent/decide approves or rejects them and executes the    *)
(* approved action against Google Ads.  Requests run concurrently; each    *)
(* await of the handler is a step.                                         *)
(***************************************************************************)
\* Proposals expire 72 hours after they are written.
EXPIRY_HOURS == 72

\* The clock of the queue advances by ClockStepHours, MaxClockSteps times.
ClockStepHours == 48

MaxClockSteps == 2

MaxItems == 1

MaxRequests == 2

ItemIds == 1..MaxItems

Requests == 1..MaxRequests

Dollars(n) == n * MICROS_PER_DOLLAR

\* A proposal as it is queued: action_type and the amounts of action_detail,
\* in micros (0: the field is absent).
QueueProposal(actionType, newAmount, fromNewAmount, toNewAmount) ==
  [action_type |-> actionType, new_amount_micros |-> newAmount,
   from_new_amount_micros |-> fromNewAmount, to_new_amount_micros |-> toNewAmount]

\* The proposals written to the queue: a budget of $30/day and one of $10/day
\* (proposals are queued as the reasoning step submitted them), a
\* reallocation with both new amounts, and a type the dispatcher does not know.
QueueProposals ==
  {QueueProposal("adjust_budget", Dollars(30), 0, 0),
   QueueProposal("adjust_budget", Dollars(10), 0, 0),
   QueueProposal("reallocate_budget", 0, Dollars(30), Dollars(40)),
   QueueProposal("remove_campaign", 0, 0, 0)}

ItemActions == {p.action_type : p \in QueueProposals}

VARIABLES
  queue,          \* ads_agent_decision_queue: item id -> row
  changeLog,      \* ads_agent_change_log: outcome of the row linked to each item
  mutations,      \* the mutate calls Google Ads has applied
  notifications,  \* number of rows of ads_agent_notifications
  req,            \* the decide requests: request -> handler state
  clock           \* wall clock of the queue, in hours

decideVars == <<queue, changeLog, mutations, notifications, req>>

NoRow ==
  [status |-> "none", action_type |-> "", new_amount_micros |-> 0,
   from_new_amount_micros |-> 0, to_new_amount_micros |-> 0, change_log_id |-> FALSE,
   expires_at |-> 0]

IdleRequest ==
  [pc |-> "idle", decision_id |-> 0, decision |-> "", queueItem |-> NoRow,
   done |-> 0, success |-> FALSE, http |-> 0, now |-> 0]

DecideInit ==
  /\ queue = [i \in ItemIds |-> NoRow]
  /\ changeLog = [i \in ItemIds |-> "none"]
  /\ mutations = {}
  /\ notifications = 0
  /\ req = [r \in Requests |-> IdleRequest]
  /\ clock = 0

\* writeProposals, one proposal: a change-log row with outcome 'pending' and
\* a pending queue item linked to it (the insert of the change-log row
\* succeeds, change_log_id is its id).
WriteProposal(i, p) ==
  /\ queue[i].status = "none"
  /\ changeLog' = [changeLog EXCEPT ![i] = "pending"]
  /\ queue' = [queue EXCEPT ![i] =
                 [status |-> "pending", action_type |-> p.action_type,
                  new_amount_micros |-> p.new_amount_micros,
                  from_new_amount_micros |-> p.from_new_amount_micros,
                  to_new_amount_micros |-> p.to_new_amount_micros,
                  change_log_id |-> TRUE,
                  expires_at |-> clock + EXPIRY_HOURS]]
  /\ UNCHANGED <<mutations, notifications, req>>

\* return NextResponse.json(..., {status: code}); the handler's locals are gone.
Respond(r, id, decision, code) ==
  req' = [req EXCEPT ![r] = [IdleRequest EXCEPT !.pc = "responded", !.decision_id = id,
                                                !.decision = decision, !.http = code]]

\* POST: the body lacks decision_id or decision, or decision is neither
\* "approved" nor "rejected": 400.
DecideBadRequest(r) ==
  /\ req[r].pc = "idle"
  /\ Respond(r, 0, "", 400)
  /\ UNCHANGED <<queue, changeLog, mutations, notifications>>

ItemExists(id) == id \in ItemIds /\ queue[id].status # "none"

\* POST with a valid body; 1. the fetch of the item returns no row: 404.
DecideNotFound(r, id, decision) ==
  /\ req[r].pc = "idle"
  /\ ~ItemExists(id)
  /\ Respond(r, id, decision, 404)
  /\ UNCHANGED <<queue, changeLog, mutations, notifications>>

\* The fetched item is not pending: 409.
DecideConflict(r, id, decision) ==
  /\ req[r].pc = "idle"
  /\ ItemExists(id)
  /\ queue[id].status # "pending"
  /\ Respond(r, id, decision, 409)
  /\ UNCHANGED <<queue, changeLog, mutations, notifications>>

\* Mutant: the status of the fetched item is not looked at.
DecideFetched_AnyStatus(r, id, decision) ==
  /\ req[r].pc = "idle"
  /\ ItemExists(id)
  /\ req' = [req EXCEPT ![r].decision_id = id,
                        ![r].decision = decision,
                        ![r].queueItem = queue[id],
                        ![r].now = clock,
                        ![r].pc = IF decision = "approved" THEN "execute"
                                  ELSE "update_queue"]
  /\ UNCHANGED <<queue, changeLog, mutations, notifications>>

\* The fetched item is pending: the handler goes on with the row it has read.
DecideFetched(r, id, decision) ==
  /\ req[r].pc = "idle"
  /\ ItemExists(id)
  /\ queue[id].status = "pending"
  /\ req' = [req EXCEPT ![r].decision_id = id,
                        ![r].decision = decision,
                        ![r].queueItem = queue[id],
                        ![r].now = clock,
                        ![r].pc = IF decision = "approved" THEN "execute"
                                  ELSE "update_queue"]
  /\ UNCHANGED <<queue, changeLog, mutations, notifications>>

\* executeGoogleAdsAction: the amounts the action passes to
\* adjustCampaignBudget, one per mutate call, in the order of the calls.
BudgetWrites(row) ==
  CASE row.action_type = "adjust_budget" ->
         IF row.new_amount_micros = 0 THEN <<>> ELSE <<row.new_amount_micros>>
    [] row.action_type = "reallocate_budget" ->
         (IF row.from_new_amount_micros = 0 THEN <<>> ELSE <<row.from_new_amount_micros>>)
         \o (IF row.to_new_amount_micros = 0 THEN <<>> ELSE <<row.to_new_amount_micros>>)
    [] OTHER -> <<>>

\* The number of mutate calls the action makes.
MutationsOf(row) == Len(BudgetWrites(row))

\* {success: true} when every call has returned: the action type is known
\* and adjust_budget has its new amount.
KnownAction(row) ==
  \/ row.action_type = "adjust_budget" /\ row.new_amount_micros # 0
  \/ row.action_type = "reallocate_budget"

\* adjustCampaignBudget(budgetId, newAmountMicros): amountMicros as written.
Mutation(r) ==
  [item |-> req[r].decision_id, by |-> r, call |-> req[r].done + 1,
   amount_micros |-> BudgetWrites(req[r].queueItem)[req[r].done + 1]]

\* 2. One mutate call of the approved action is applied by Google Ads.
ExecuteMutation(r) ==
  /\ req[r].pc = "execute"
  /\ req[r].done < MutationsOf(req[r].queueItem)
  /\ mutations' = mutations \cup {Mutation(r)}
  /\ req' = [req EXCEPT ![r].done = @ + 1]
  /\ UNCHANGED <<queue, changeLog, notifications>>

\* A mutate call throws: the catch returns {success: false}.
ExecuteFails(r) ==
  /\ req[r].pc = "execute"
  /\ req[r].done < MutationsOf(req[r].queueItem)
  /\ req' = [req EXCEPT ![r].success = FALSE, ![r].pc = "update_queue"]
  /\ UNCHANGED <<queue, changeLog, mutations, notifications>>

\* Every mutate call of the action returned ({success: true}), or the action
\* type is unknown ({success: false}).
ExecuteReturns(r) ==
  /\ req[r].pc = "execute"
  /\ req[r].done = MutationsOf(req[r].queueItem)
  /\ req' = [req EXCEPT ![r].success = KnownAction(req[r].queueItem),
                        ![r].pc = "update_queue"]
  /\ UNCHANGED <<queue, changeLog, mutations, notifications>>

FinalOutcome(q) == IF q.decision = "approved" /\ q.success THEN "executed" ELSE q.decision

\* 3. The queue item is updated: status is the decision.
UpdateQueue(r) ==
  /\ req[r].pc = "update_queue"
  /\ queue' = [queue EXCEPT ![req[r].decision_id].status =
                 IF FinalOutcome(req[r]) = "executed" THEN "approved" ELSE req[r].decision]
  /\ req' = [req EXCEPT ![r].pc = "update_log"]
  /\ UNCHANGED <<changeLog, mutations, notifications>>

\* The update fails: 500, nothing else is written.
UpdateQueueFails(r) ==
  /\ req[r].pc = "update_queue"
  /\ Respond(r, req[r].decision_id, req[r].decision, 500)
  /\ UNCHANGED <<queue, changeLog, mutations, notifications>>

\* 4. The linked change-log row gets the final outcome (a failed update is
\* only logged); 5. the notification is inserted and the handler answers 200.
FinishDecision(r, ok) ==
  /\ req[r].pc = "update_log"
  /\ changeLog' = IF req[r].queueItem.change_log_id /\ ok
                  THEN [changeLog EXCEPT ![req[r].decision_id] = FinalOutcome(req[r])]
                  ELSE changeLog
  /\ notifications' = notifications + 1
  /\ Respond(r, req[r].decision_id, req[r].decision, 200)
  /\ UNCHANGED <<queue, mutations>>

\* Time passes.
ClockAdvances ==
  /\ clock < MaxClockSteps * ClockStepHours
  /\ clock' = clock + ClockStepHours
  /\ UNCHANGED decideVars

Decisions == {"approved", "rejected"}

DecideNext ==
  \/ \E i \in ItemIds, p \in QueueProposals : WriteProposal(i, p)
  \/ \E r \in Requests : DecideBadRequest(r)
  \/ \E r \in Requests, id \in ItemIds \cup {0}, d \in Decisions : DecideNotFound(r, id, d)
  \/ \E r \in Requests, id \in ItemIds, d \in Decisions : DecideConflict(r, id, d)
  \/ \E r \in Requests, id \in ItemIds, d \in Decisions : DecideFetched(r, id, d)
  \/ \E r \in Requests : ExecuteMutation(r)
  \/ \E r \in Requests : ExecuteFails(r)
  \/ \E r \in Requests : ExecuteReturns(r)
  \/ \E r \in Requests : UpdateQueue(r)
  \/ \E r \in Requests : UpdateQueueFails(r)
  \/ \E r \in Requests, ok \in BOOLEAN : FinishDecision(r, ok)

(***************************************************************************)
(* evaluate_recommendation on its own: one call of executeToolCall with an *)
(* input of the reasoning step and the ToolContext that                    *)
(* runRecommendationLoop builds from the Layer-1 snapshot of the session.  *)
(***************************************************************************)
VARIABLES
  evalInput,      \* the input object of the call
  evalLayer1,     \* the Layer-1 snapshot of the session
  evalResult      \* the outcome of the call

evalVars == <<evalInput, evalLayer1, evalResult>>

\* toolContext, as runRecommendationLoop builds it: the keywords of the
\* snapshot (with their current bids) are not passed on.
ToolContextOf(layer1) ==
  [layer1Campaigns |-> layer1.campaigns, layer1Ads |-> layer1.ads]

Campaign(id, conversions) == [campaignId |-> id, conversions |-> conversions]

Ad(adGroupId, status) == [adGroupId |-> adGroupId, status |-> status]

Keyword(criterionId, cpcBidMicros) ==
  [criterionId |-> criterionId, cpcBidMicros |-> cpcBidMicros]

Layer1(campaigns, keywords, ads) ==
  [campaigns |-> campaigns, keywords |-> keywords, ads |-> ads]

EmptyLayer1 == Layer1(<<>>, <<>>, <<>>)

\* The snapshot of the loop model (ad group 7: one enabled ad, ad group 8:
\* two), with a keyword whose current bid is $1.00.
SessionLayer1 ==
  Layer1(LoopContext.layer1Campaigns,
         <<Keyword(<<"1", "1", "1">>, Str(<<"1", "0", "0", "0", "0", "0", "0">>))>>,
         LoopContext.layer1Ads)

\* Ad group 7: one enabled and one paused ad; ad group 8: paused ads only;
\* ad group 9: three enabled ads.  Campaign 12 has conversions, 11 has none.
OtherLayer1 ==
  Layer1(<<Campaign(<<"1", "1">>, 0), Campaign(<<"1", "2">>, 5)>>,
         <<Keyword(<<"1", "1", "1">>, Undef)>>,
         <<Ad(<<"7">>, "ENABLED"), Ad(<<"7">>, "PAUSED"), Ad(<<"8">>, "PAUSED"), Ad(<<"8">>, "REMOVED"),
           Ad(<<"9">>, "ENABLED"), Ad(<<"9">>, "ENABLED"), Ad(<<"9">>, "ENABLED")>>)

Layer1Snapshots == {EmptyLayer1, SessionLayer1, OtherLayer1}

EvalInputOf(actionType, fields) ==
  ToolInput(NoProposals, UNDEFINED, actionType, Detail(fields))

\* Amounts in micros as the reasoning step may write them: absent, the number
\* 0, "0", "", $24.99, $25.00 and $10 as strings, $24.99 and $25 as numbers.
AmountValues ==
  {Undef, Num(0), Str(<<"0">>), Str(<<>>), Str(<<"2", "4", "9", "9", "0", "0", "0", "0">>), Str(<<"2", "5", "0", "0", "0", "0", "0", "0">>), Str(<<"1", "0", "0", "0", "0", "0", "0", "0">>), Num(24990000), Num(25000000)}

BudgetInputs ==
  {EvalInputOf(a, [NoFields EXCEPT !["new_amount_micros"] = v, !["budget_id"] = b]) :
     a \in {"adjust_budget", "adjust_bid"}, v \in AmountValues, b \in {Undef, Str(<<"4", "2">>)}}

KeywordTexts ==
  {Undef, Str(<<>>), Str(<<"d", "a", "i", "r", "y", " ", "p", "r", "o", "c", "e", "s", "s", "i", "n", "g", " ", "s", "o", "f", "t", "w", "a", "r", "e">>), Str(<<"o", "f", "f", "i", "c", "e", " ", "s", "u", "p", "p", "l", "i", "e", "s">>), Str(<<"M", "e", "a", "t", " ", "E", "R", "P">>), Str(<<"d", "e", "l", "i", "v", "e", "r", "y">>), Num(7)}

KeywordInputs ==
  {EvalInputOf(a, [NoFields EXCEPT !["keyword_text"] = k, !["criterion_id"] = c]) :
     a \in {"pause_keyword", "add_negative_keyword", "add_keyword"},
     k \in KeywordTexts, c \in {Undef, Str(<<"1", "2", "3">>), Str(<<"a", "b", "c">>)}}

\* Identifier values: absent, "", digits, letters.
IdChoices == {Undef, Str(<<>>), Str(<<"1", "2", "3">>), Str(<<"a", "b", "c">>)}

\* Further identifier values: a placeholder, digits with a letter, numbers.
OddIds == {Str(<<"{", "{", "c", "a", "m", "p", "a", "i", "g", "n", "_", "i", "d", "}", "}">>), Str(<<"1", "2", "a">>), Num(123), Num(0)}

IdInputs ==
  {EvalInputOf("enable_ad",
               [NoFields EXCEPT !["campaign_id"] = c, !["ad_group_id"] = g,
                                !["ad_id"] = a, !["criterion_id"] = k,
                                !["budget_id"] = b]) :
     c \in IdChoices, g \in IdChoices, a \in IdChoices, k \in IdChoices, b \in IdChoices}
  \cup
  {EvalInputOf("enable_ad", [NoFields EXCEPT ![idFields[i]] = v]) :
     i \in 1..Len(idFields), v \in OddIds}

BidInputs ==
  {EvalInputOf("adjust_bid", [NoFields EXCEPT !["new_bid_micros"] = v, !["criterion_id"] = c]) :
     v \in {Undef, Num(0), Str(<<"7", "0", "0", "0", "0", "0">>), Str(<<"1", "1", "0", "0", "0", "0", "0">>), Str(<<"1", "2", "0", "0", "0", "0", "0">>), Str(<<"1", "2", "1", "0", "0", "0", "0">>), Str(<<"2", "0", "0", "0", "0", "0", "0">>)},
     c \in {Undef, Str(<<"1", "1", "1">>), Str(<<"1", "2", "3">>)}}

AdInputs ==
  {EvalInputOf(a, [NoFields EXCEPT !["ad_group_id"] = g, !["ad_id"] = d]) :
     a \in {"pause_ad", "enable_ad"},
     g \in {Undef, Str(<<"7">>), Str(<<"8">>), Str(<<"9">>), Str(<<"1", "2", "3">>), Num(8)}, d \in {Undef, Str(<<"1", "2", "3">>)}}

CampaignInputs ==
  {EvalInputOf(a, [NoFields EXCEPT !["campaign_id"] = c]) :
     a \in {"pause_campaign", "enable_campaign"},
     c \in {Undef, Str(<<"1", "1">>), Str(<<"1", "2">>), Str(<<"1", "2", "3">>), Num(12)}}

NoDetailInputs ==
  {ToolInput(NoProposals, UNDEFINED, a, NoDetail) : a \in {"adjust_budget", "pause_ad"}}

\* The calls of this model: an input with the snapshot it is evaluated in.
EvalCases ==
  ((BudgetInputs \cup KeywordInputs \cup IdInputs \cup BidInputs \cup NoDetailInputs)
     \X {SessionLayer1})
  \cup ((AdInputs \cup CampaignInputs) \X Layer1Snapshots)

NoEvaluation ==
  [state |-> "none", passes |-> FALSE, violations |-> <<>>, warnings |-> <<>>]

Evaluated(out) ==
  [state |-> "returned", passes |-> out.passes, violations |-> out.violations,
   warnings |-> out.warnings]

\* No call of this kind is under way (the other specifications).
EvalIdle ==
  /\ evalInput = InputOf("empty")
  /\ evalLayer1 = EmptyLayer1
  /\ evalResult = NoEvaluation

EvalInit ==
  /\ \E c \in EvalCases : evalInput = c[1] /\ evalLayer1 = c[2]
  /\ evalResult = NoEvaluation

\* executeToolCall('evaluate_recommendation', input, toolContext) returns.
EvaluateReturns ==
  /\ evalResult.state = "none"
  /\ ~ExecuteToolCallThrows("evaluate_recommendation", evalInput)
  /\ evalResult' = Evaluated(ExecuteToolCallResult("evaluate_recommendation", evalInput,
                                                   ToolContextOf(evalLayer1), FALSE))
  /\ UNCHANGED <<evalInput, evalLayer1>>

\* The call throws.
EvaluateRejects ==
  /\ evalResult.state = "none"
  /\ ExecuteToolCallThrows("evaluate_recommendation", evalInput)
  /\ evalResult' = [NoEvaluation EXCEPT !.state = "threw"]
  /\ UNCHANGED <<evalInput, evalLayer1>>

EvalNext ==
  \/ EvaluateReturns
  \/ EvaluateRejects

(***************************************************************************)
(* get_historical_performance on its own: one call of executeToolCall.     *)
(* The result keeps the entity, the number of days of data and the days    *)
(* requested of the collaborator; the trend figures are left out.          *)
(***************************************************************************)
VARIABLES
  histInput,      \* the input object of the call
  histFails,      \* does the Google Ads query of the call fail?
  histResult      \* the outcome of the call

histVars == <<histInput, histFails, histResult>>

MAX_HISTORY_DAYS == 90
DEFAULT_HISTORY_DAYS == 30

HistoryInput(campaignId, keywordText, days) ==
  [campaign_id |-> campaignId, keyword_text |-> keywordText, days |-> days]

\* The daily rows of the account: [campaignId, keywordText, day], day being
\* the age of the row in days.
DailyRow(campaignId, keywordText, day) ==
  [campaignId |-> campaignId, keywordText |-> keywordText, day |-> day]

CampaignDaily ==
  <<DailyRow(<<"1", "1">>, <<>>, 1), DailyRow(<<"1", "2">>, <<>>, 1), DailyRow(<<"1", "1">>, <<>>, 20),
    DailyRow(<<"1", "1">>, <<>>, 60), DailyRow(<<"1", "2">>, <<>>, 80)>>

KeywordDaily ==
  <<DailyRow(<<"1", "1">>, <<"d", "a", "i", "r", "y", " ", "e", "r", "p">>, 1), DailyRow(<<"1", "1">>, <<"D", "a", "i", "r", "y", " ", "E", "R", "P">>, 20),
    DailyRow(<<"1", "2">>, <<"m", "e", "a", "t", " ", "s", "o", "f", "t", "w", "a", "r", "e">>, 40), DailyRow(<<"1", "1">>, <<"d", "a", "i", "r", "y", " ", "e", "r", "p">>, 80)>>

\* getCampaignHistorical(days), getKeywordHistorical(days): the rows of the
\* last `days` days.
Historical(rows, days) == SelectSeq(rows, LAMBDA d : d.day <= days)

\* Math.min((input.days as number) || 30, 90)
HistoryDays(input) ==
  LET d == IF Truthy(input.days) THEN input.days.n ELSE DEFAULT_HISTORY_DAYS
  IN IF d < MAX_HISTORY_DAYS THEN d ELSE MAX_HISTORY_DAYS

HistoryError(msg) ==
  [kind |-> "error", error |-> msg, entity |-> "", days_of_data |-> 0, days |-> 0]

HistoryData(entity, daily, days) ==
  [kind |-> "history", error |-> "", entity |-> entity,
   days_of_data |-> Len(daily), days |-> days]

NoHistory == [kind |-> "none", error |-> "", entity |-> "", days_of_data |-> 0, days |-> 0]

GetHistoricalPerformance(input, fails) ==
  LET campaignId == input.campaign_id
      keywordText == input.keyword_text
      days == HistoryDays(input)
  IN
  IF ~Truthy(campaignId) /\ ~Truthy(keywordText)
  THEN HistoryError("Provide either campaign_id or keyword_text")
  ELSE IF fails THEN HistoryError("Failed to fetch historical data")
  ELSE IF Truthy(campaignId)
  THEN HistoryData("campaign",
                   SelectSeq(Historical(CampaignDaily, days),
                             LAMBDA d : Str(d.campaignId) = campaignId),
                   days)
  ELSE IF keywordText.t # "string"
  THEN HistoryError("Failed to fetch historical data")
  ELSE HistoryData("keyword",
                   SelectSeq(Historical(KeywordDaily, days),
                             LAMBDA d : ToLowerCase(d.keywordText) = ToLowerCase(keywordText.s)),
                   days)

HistoryCampaignIds == {Undef, Str(<<>>), Str(<<"1", "1">>), Str(<<"1", "2">>), Str(<<"9", "9">>), Num(11)}

HistoryKeywordTexts == {Undef, Str(<<>>), Str(<<"d", "a", "i", "r", "y", " ", "e", "r", "p">>), Str(<<"D", "a", "i", "r", "y", " ", "E", "R", "P">>), Str(<<"o", "f", "f", "i", "c", "e", " ", "s", "u", "p", "p", "l", "i", "e", "s">>), Num(7)}

HistoryDayValues == {Undef, Num(0), Num(7), Num(30), Num(90), Num(365)}

HistoryInputs ==
  {HistoryInput(c, k, d) :
     c \in HistoryCampaignIds, k \in HistoryKeywordTexts, d \in HistoryDayValues}

HistIdle ==
  /\ histInput = HistoryInput(Undef, Undef, Undef)
  /\ histFails = FALSE
  /\ histResult = NoHistory

HistInit ==
  /\ histInput \in HistoryInputs
  /\ histFails \in BOOLEAN
  /\ histResult = NoHistory

\* executeToolCall('get_historical_performance', input, toolContext) returns.
HistoryReturns ==
  /\ histResult.kind = "none"
  /\ histResult' = GetHistoricalPerformance(histInput, histFails)
  /\ UNCHANGED <<histInput, histFails>>

HistNext == HistoryReturns

(***************************************************************************)
(* JavaScript numbers (IEEE-754 binary64) for the arithmetic of            *)
(* check_reallocation_impact.  A natural below 2^60 is three limbs         *)
(* <<high, middle, low>> in base 2^20; a double is [m, e], standing for    *)
(* m * 2^e with 2^52 <= m < 2^53, or m = 0.  Every operation rounds to     *)
(* nearest, ties to even.                                                  *)
(***************************************************************************)
Limb == 2^20

MantissaBits == 53

BigOf(n) == <<0, n \div Limb, n % Limb>>

BigZero == <<0, 0, 0>>

BigGeq(a, b) ==
  \/ a[1] > b[1]
  \/ a[1] = b[1] /\ a[2] > b[2]
  \/ a[1] = b[1] /\ a[2] = b[2] /\ a[3] >= b[3]

\* a - b, for a >= b
BigSubBorrow(a, b, borrowLow, borrowMid) ==
  <<a[1] - borrowMid - b[1],
    a[2] - borrowLow + borrowMid * Limb - b[2],
    a[3] + borrowLow * Limb - b[3]>>

BigSub(a, b) ==
  BigSubBorrow(a, b,
               IF a[3] < b[3] THEN 1 ELSE 0,
               IF a[2] - (IF a[3] < b[3] THEN 1 ELSE 0) < b[2] THEN 1 ELSE 0)

\* a * k, for a small natural k
BigTimes(a, k) ==
  <<a[1] * k + (a[2] * k + (a[3] * k) \div Limb) \div Limb,
    (a[2] * k + (a[3] * k) \div Limb) % Limb,
    (a[3] * k) % Limb>>

\* a + 1
BigSucc(a) ==
  IF a[3] + 1 < Limb THEN <<a[1], a[2], a[3] + 1>>
  ELSE IF a[2] + 1 < Limb THEN <<a[1], a[2] + 1, 0>>
  ELSE <<a[1] + 1, 0, 0>>

\* floor(a / 2)
BigHalf(a) ==
  <<a[1] \div 2, (a[1] % 2) * (Limb \div 2) + a[2] \div 2,
    (a[2] % 2) * (Limb \div 2) + a[3] \div 2>>

RECURSIVE BitsOf(_)
BitsOf(n) == IF n = 0 THEN 0 ELSE 1 + BitsOf(n \div 2)

\* The number of bits of a.
BigBits(a) ==
  IF a[1] > 0 THEN 40 + BitsOf(a[1])
  ELSE IF a[2] > 0 THEN 20 + BitsOf(a[2])
  ELSE BitsOf(a[3])

\* a * 2^s, for s < 20
BigShiftSmall(a, s) == BigTimes(BigTimes(a, 2^(s \div 2)), 2^(s - s \div 2))

\* a * 2^s, for a * 2^s < 2^60
BigShiftLeft(a, s) ==
  IF s >= 40 THEN BigShiftSmall(<<a[3], 0, 0>>, s - 40)
  ELSE IF s >= 20 THEN BigShiftSmall(<<a[2], a[3], 0>>, s - 20)
  ELSE BigShiftSmall(a, s)

\* floor(a / 2^s), for s < 20
BigShiftRight(a, s) ==
  <<a[1] \div 2^s,
    (a[1] % 2^s) * (Limb \div 2^s) + a[2] \div 2^s,
    (a[2] % 2^s) * (Limb \div 2^s) + a[3] \div 2^s>>

Double(m, e) == [m |-> m, e |-> e]

DoubleZero == Double(BigZero, 0)

\* a (of more than 53 bits) without its last `drop` bits, rounded to nearest,
\* ties to even; sticky says that the exact value has further non-zero bits.
RoundedBits(a, drop, sticky) ==
  IF \/ a[3] % 2^drop > 2^(drop - 1)
     \/ /\ a[3] % 2^drop = 2^(drop - 1)
        /\ (sticky \/ BigShiftRight(a, drop)[3] % 2 = 1)
  THEN BigSucc(BigShiftRight(a, drop))
  ELSE BigShiftRight(a, drop)

\* The double m * 2^e, for m of 53 or 54 bits (54: 2^53 after rounding up)
Renormalized(m, e) ==
  IF BigBits(m) > MantissaBits THEN Double(BigHalf(m), e + 1) ELSE Double(m, e)

\* The double nearest to a * 2^e (a > 0), where sticky says that the exact
\* value has further non-zero bits below those of a.
RoundToDouble(a, e, sticky) ==
  IF BigBits(a) <= MantissaBits
  THEN Double(BigShiftLeft(a, MantissaBits - BigBits(a)), e - (MantissaBits - BigBits(a)))
  ELSE Renormalized(RoundedBits(a, BigBits(a) - MantissaBits, sticky),
                    e + (BigBits(a) - MantissaBits))

\* Number(n), for a natural n
DoubleOf(n) == IF n = 0 THEN DoubleZero ELSE RoundToDouble(BigOf(n), 0, FALSE)

\* One more quotient bit of r / d (r < 2 * d), from qr = <<quotient, r>>
DivideBit(qr, d) ==
  IF BigGeq(qr[2], d)
  THEN <<BigSucc(BigTimes(qr[1], 2)), BigTimes(BigSub(qr[2], d), 2)>>
  ELSE <<BigTimes(qr[1], 2), BigTimes(qr[2], 2)>>

\* n more quotient bits; they are all 0 once the remainder is 0
RECURSIVE DivideBits(_, _, _)
DivideBits(qr, d, n) ==
  IF qr[2] = BigZero THEN <<BigShiftLeft(qr[1], n), BigZero>>
  ELSE IF n = 0 THEN qr
  ELSE IF n = 1 THEN DivideBit(qr, d)
  ELSE DivideBits(DivideBits(qr, d, n \div 2), d, n - n \div 2)

\* The double of the quotient bits qr = <<quotient, remainder>>
QuotientToDouble(qr, e) == RoundToDouble(qr[1], e, qr[2] # BigZero)

\* x / y, for y > 0
DoubleDiv(x, y) ==
  IF x.m = BigZero THEN DoubleZero
  ELSE IF BigGeq(x.m, y.m)
  THEN QuotientToDouble(DivideBits(<<BigZero, x.m>>, y.m, MantissaBits + 1),
                        x.e - y.e - MantissaBits)
  ELSE QuotientToDouble(DivideBits(<<BigZero, BigTimes(x.m, 2)>>, y.m, MantissaBits + 1),
                        x.e - y.e - 1 - MantissaBits)

\* x * k, for a small natural k > 0
DoubleTimes(x, k) ==
  IF x.m = BigZero THEN DoubleZero ELSE RoundToDouble(BigTimes(x.m, k), x.e, FALSE)

\* x > y
DoubleGreater(x, y) ==
  IF x.m = BigZero THEN FALSE
  ELSE IF y.m = BigZero THEN TRUE
  ELSE x.e > y.e \/ (x.e = y.e /\ x.m # y.m /\ BigGeq(x.m, y.m))

\* microsToDollars(micros), for a natural number of micros
MicrosToDollars(micros) == DoubleDiv(DoubleOf(micros), DoubleOf(MICROS_PER_DOLLAR))

(***************************************************************************)
(* check_reallocation_impact on its own: one call of executeToolCall over  *)
(* the budget utilization of the account and the change log.              *)
(***************************************************************************)
VARIABLES
  impactInput,      \* source_campaign_id of the call
  impactCampaigns,  \* getBudgetUtilization().all
  impactLog,        \* the rows of ads_agent_change_log
  impactFails,      \* does a collaborator of the call fail?
  impactResult      \* the outcome of the call

impactVars == <<impactInput, impactCampaigns, impactLog, impactFails, impactResult>>

BRAND_KEYWORDS == <<<<"b", "r", "a", "n", "d">>, <<"b", "r", "a", "n", "d", "e", "d">>, <<"i", "n", "e", "c", "t", "a">>>>

isBrandCampaign(name) ==
  \E i \in 1..Len(BRAND_KEYWORDS) : Includes(ToLowerCase(name), BRAND_KEYWORDS[i])

UTILIZATION_DAYS == 30

\* totalSpend / (dailyBudget * days), 0 without a budget
UtilizationRate(spendMicros, budgetMicros) ==
  IF budgetMicros = 0 THEN DoubleZero
  ELSE DoubleDiv(MicrosToDollars(spendMicros),
                 DoubleTimes(MicrosToDollars(budgetMicros), UTILIZATION_DAYS))

\* One row of getCampaignBudgetPerformance('LAST_30_DAYS'); the query keeps
\* enabled campaigns only.
BudgetRow(id, name, budgetMicros, spendMicros, cpaMicros) ==
  [campaignId |-> id, campaignName |-> name, status |-> "ENABLED",
   dailyBudgetMicros |-> budgetMicros,
   utilizationRate |-> UtilizationRate(spendMicros, budgetMicros),
   cpaMicros |-> cpaMicros,
   isBrand |-> isBrandCampaign(name)]

CampaignsOfCategory_Any(all, brand) == all

\* brandCampaigns / nonBrandCampaigns of getBudgetUtilization
CampaignsOfCategory(all, brand) == SelectSeq(all, LAMBDA c : c.isBrand = brand)

\* 0.95
MAX_TARGET_UTILIZATION == DoubleDiv(DoubleOf(95), DoubleOf(100))

MAX_TARGETS == 5

\* Math.round(c.cpa * 100), for a cpa of whole micros
CpaCents(c) == (c.cpaMicros + 5000) \div 10000

Target(c) == [campaignId |-> c.campaignId, isBrand |-> c.isBrand, cpaCents |-> CpaCents(c)]

\* targets.sort((a, b) => a.cpa - b.cpa): best CPA first, equal CPAs in the
\* order they had.
RECURSIVE InsertByCpa(_, _)
InsertByCpa(sorted, t) ==
  IF sorted = <<>> THEN <<t>>
  ELSE IF sorted[Len(sorted)].cpaCents <= t.cpaCents THEN Append(sorted, t)
  ELSE Append(InsertByCpa(SubSeq(sorted, 1, Len(sorted) - 1), t), sorted[Len(sorted)])

RECURSIVE SortByCpa(_)
SortByCpa(targets) ==
  IF targets = <<>> THEN <<>>
  ELSE InsertByCpa(SortByCpa(SubSeq(targets, 1, Len(targets) - 1)), targets[Len(targets)])

Targets(rows) == [i \in 1..Len(rows) |-> Target(rows[i])]

PotentialTargets(all, source) ==
  SortByCpa(Targets(
    SelectSeq(CampaignsOfCategory(all, source.isBrand),
              LAMBDA c : /\ c.campaignId # source.campaignId
                         /\ DoubleGreater(MAX_TARGET_UTILIZATION, c.utilizationRate)
                         /\ c.status = "ENABLED")))

\* A row of ads_agent_change_log: action_detail is the text of the summary,
\* data_used the structured data (the campaign of a new creative; the source
\* campaign and the amount of a reallocation), age the days since created_at.
LogRow(actionType, detail, campaign, from, amount, age, outcome) ==
  [action_type |-> actionType, action_detail |-> detail,
   data_used |-> [campaign_id |-> campaign, from_campaign_id |-> from,
                  amount_micros |-> amount],
   age |-> age, outcome |-> outcome]

\* JSON.stringify of a string: quoted, its quotes escaped.
RECURSIVE JsonEscape(_)
JsonEscape(chars) ==
  IF chars = <<>> THEN <<>>
  ELSE (IF Head(chars) = "\"" THEN <<"\\", "\"">> ELSE <<Head(chars)>>)
       \o JsonEscape(Tail(chars))

JsonString(chars) == <<"\"">> \o JsonEscape(chars) \o <<"\"">>

ExecutedOutcomes == {"executed", "auto_executed"}

CREATIVE_WINDOW_DAYS == 14
LOSS_WINDOW_DAYS == 60

\* recentCreatives: executed create_ad rows of the last 14 days
RecentCreatives(log) ==
  SelectSeq(log, LAMBDA r : /\ r.action_type = "create_ad"
                            /\ r.age <= CREATIVE_WINDOW_DAYS
                            /\ r.outcome \in ExecutedOutcomes)

SourceHasNewCreatives(log, sourceCampaignId) ==
  \E i \in 1..Len(RecentCreatives(log)) :
     Includes(JsonString(RecentCreatives(log)[i].action_detail), sourceCampaignId)

\* pastReallocations: executed budget rows of the last 60 days
PastReallocations(log) ==
  SelectSeq(log, LAMBDA r : /\ r.action_type \in {"reallocate_budget", "adjust_budget"}
                            /\ r.age <= LOSS_WINDOW_DAYS
                            /\ r.outcome \in ExecutedOutcomes)

\* cumulativeLoss, in micros
RECURSIVE CumulativeLoss(_, _)
CumulativeLoss(rows, sourceCampaignId) ==
  IF rows = <<>> THEN 0
  ELSE CumulativeLoss(SubSeq(rows, 1, Len(rows) - 1), sourceCampaignId)
       + (IF /\ rows[Len(rows)].data_used.from_campaign_id = sourceCampaignId
             /\ Truthy(rows[Len(rows)].data_used.amount_micros)
          THEN ToNumber(rows[Len(rows)].data_used.amount_micros).v ELSE 0)

LOSS_THRESHOLD_PERCENT == 40

\* cumulativeLossPct: (cumulativeLossDollars / (dailyBudget * 60)) * 100
CumulativeLossPct(lossMicros, budgetMicros) ==
  IF budgetMicros = 0 THEN DoubleZero
  ELSE DoubleTimes(DoubleDiv(MicrosToDollars(lossMicros),
                             DoubleTimes(MicrosToDollars(budgetMicros), LOSS_WINDOW_DAYS)),
                   100)

ExceedsThreshold(lossMicros, budgetMicros) ==
  DoubleGreater(CumulativeLossPct(lossMicros, budgetMicros), DoubleOf(LOSS_THRESHOLD_PERCENT))

NoImpact ==
  [kind |-> "none", error |-> "", source |-> [campaignId |-> <<>>, isBrand |-> FALSE,
                                              hasNewCreatives |-> FALSE],
   potential_targets |-> <<>>, brand_non_brand_safe |-> FALSE,
   exceeds_40pct_threshold |-> FALSE, warnings |-> <<>>]

ImpactError(msg) == [NoImpact EXCEPT !.kind = "error", !.error = msg]

ImpactWarnings(newCreatives, exceeds, source, targets) ==
  (IF newCreatives THEN <<"creative_protection">> ELSE <<>>)
  \o (IF exceeds THEN <<"cumulative_loss">> ELSE <<>>)
  \o (IF source.dailyBudgetMicros <= BUDGET_FLOOR_DOLLARS * MICROS_PER_DOLLAR
      THEN <<"at_budget_floor">> ELSE <<>>)
  \o (IF targets = <<>> THEN <<"no_targets">> ELSE <<>>)

ImpactOf(source, targets, newCreatives, exceeds) ==
  [kind |-> "impact", error |-> "",
   source |-> [campaignId |-> source.campaignId, isBrand |-> source.isBrand,
               hasNewCreatives |-> newCreatives],
   potential_targets |-> SubSeq(targets, 1, IF Len(targets) < MAX_TARGETS THEN Len(targets)
                                            ELSE MAX_TARGETS),
   brand_non_brand_safe |-> targets # <<>>,
   exceeds_40pct_threshold |-> exceeds,
   warnings |-> ImpactWarnings(newCreatives, exceeds, source, targets)]

\* utilization.all.find(c => c.campaignId === sourceCampaignId)
FindSource(all, sourceCampaignId) ==
  SelectSeq(all, LAMBDA c : Str(c.campaignId) = sourceCampaignId)

CheckReallocationImpact(sourceCampaignId, all, log, fails) ==
  IF fails THEN ImpactError("Failed to check reallocation impact")
  ELSE IF FindSource(all, sourceCampaignId) = <<>>
  THEN ImpactError("Campaign not found in budget utilization data")
  ELSE ImpactOf(FindSource(all, sourceCampaignId)[1],
                PotentialTargets(all, FindSource(all, sourceCampaignId)[1]),
                SourceHasNewCreatives(log, sourceCampaignId.s),
                ExceedsThreshold(CumulativeLoss(PastReallocations(log), sourceCampaignId.s),
                                 FindSource(all, sourceCampaignId)[1].dailyBudgetMicros))

\* The campaigns of the account: three with a brand name (12 is spent to
\* 96% of its budget), one whose name says non-brand, seven others (25 is
\* spent to 95%).  The budget of 21 is $25.04 a day, that of 22 is $50, that
\* of 23 is $25.
CampaignPool ==
  <<BudgetRow(<<"1", "1">>, <<"B", "r", "a", "n", "d", " ", "S", "e", "a", "r", "c", "h">>, 80000000, 1500000000, 30000000),
    BudgetRow(<<"1", "2">>, <<"B", "r", "a", "n", "d", "e", "d", " ", "P", "r", "o", "m", "o">>, 50000000, 1440000000, 10000000),
    BudgetRow(<<"1", "3">>, <<"i", "n", "e", "c", "t", "a", " ", "F", "o", "o", "d">>, 40000000, 960000000, 20000000),
    BudgetRow(<<"1", "4">>, <<"N", "o", "n", "-", "B", "r", "a", "n", "d", " ", "M", "e", "a", "t">>, 40000000, 600000000, 15000000),
    BudgetRow(<<"2", "1">>, <<"D", "a", "i", "r", "y", " ", "E", "R", "P">>, 25040000, 375600000, 40000000),
    BudgetRow(<<"2", "2">>, <<"S", "e", "a", "f", "o", "o", "d", " ", "E", "R", "P">>, 50000000, 750000000, 35000000),
    BudgetRow(<<"2", "3">>, <<"B", "a", "k", "e", "r", "y">>, 25000000, 375000000, 35000000),
    BudgetRow(<<"2", "4">>, <<"B", "e", "v", "e", "r", "a", "g", "e">>, 60000000, 900000000, 12340000),
    BudgetRow(<<"2", "5">>, <<"P", "r", "o", "d", "u", "c", "e">>, 60000000, 1710000000, 5000000),
    BudgetRow(<<"2", "6">>, <<"M", "e", "a", "t", " ", "S", "o", "f", "t", "w", "a", "r", "e">>, 30000000, 450000000, 80000000),
    BudgetRow(<<"2", "7">>, <<"S", "n", "a", "c", "k", "s">>, 30000000, 450000000, 50000000)>>

RECURSIVE PickCampaigns(_, _)
PickCampaigns(chosen, n) ==
  IF n = 0 THEN <<>>
  ELSE PickCampaigns(chosen, n - 1)
       \o (IF n \in chosen THEN <<CampaignPool[n]>> ELSE <<>>)

\* Every set of campaigns of the pool, in the order of the pool.
CampaignSets == {PickCampaigns(chosen, Len(CampaignPool)) : chosen \in SUBSET (1..Len(CampaignPool))}

AllCampaigns == PickCampaigns(1..Len(CampaignPool), Len(CampaignPool))

SourceIds == {Str(CampaignPool[i].campaignId) : i \in 1..Len(CampaignPool)} \cup {Str(<<"9", "9">>), Undef}

\* The summaries of new creatives: two name an ad group, one names campaign 21.
CreativeSummaries == {<<"N", "e", "w", " ", "R", "S", "A", " ", "f", "o", "r", " ", "a", "d", " ", "g", "r", "o", "u", "p", " ", "\"", "D", "a", "i", "r", "y", "\"">>, <<"N", "e", "w", " ", "R", "S", "A", " ", "f", "o", "r", " ", "a", "d", " ", "g", "r", "o", "u", "p", " ", "\"", "P", "r", "o", "m", "o", " ", "2", "0", "2", "1", "\"">>,
                      <<"N", "e", "w", " ", "R", "S", "A", " ", "i", "n", " ", "c", "a", "m", "p", "a", "i", "g", "n", " ", "2", "1">>}

\* One new-creative (or pause_ad) row: for campaign 21 or 22, 13 to 15 days old.
CreativeLogs ==
  {<<LogRow(a, d, c, <<>>, Undef, age, o)>> :
     a \in {"create_ad", "pause_ad"}, d \in CreativeSummaries, c \in {<<"2", "1">>, <<"2", "2">>},
     age \in {13, 14, 15}, o \in {"executed", "auto_executed", "pending"}}

\* Amounts removed: of the 60-day budget of campaign 21 ($1502.40) 39.9%,
\* 40% and 40.01%; of that of campaign 22 ($3000) 40% and 40.01%; of that of
\* campaign 23 ($1500) 40%.
LossAmounts == {599457600, 600960000, 601110240, 1200000000, 1200300000, 600000000}

\* One budget row taking an amount from campaign 21, 22 or 23.
LossLogs ==
  {<<LogRow(a, <<"R", "e", "a", "l", "l", "o", "c", "a", "t", "e", " ", "b", "u", "d", "g", "e", "t">>, <<>>, f, m, age, o)>> :
     a \in {"reallocate_budget", "adjust_budget", "create_ad"}, f \in {<<"2", "1">>, <<"2", "2">>, <<"2", "3">>},
     m \in {Str(NatToDigits(n)) : n \in LossAmounts} \cup {Num(600960000), Undef},
     age \in {60, 61}, o \in {"executed", "rejected"}}

\* Two executed reallocations from the same campaign, each of 20% or of
\* 20.005% of its 60-day budget.
TwoLosses(from, m1, m2) ==
  <<LogRow("reallocate_budget", <<"R", "e", "a", "l", "l", "o", "c", "a", "t", "e", " ", "b", "u", "d", "g", "e", "t">>, <<>>, from, Str(NatToDigits(m1)), 1, "executed"),
    LogRow("adjust_budget", <<"R", "e", "a", "l", "l", "o", "c", "a", "t", "e", " ", "b", "u", "d", "g", "e", "t">>, <<>>, from, Str(NatToDigits(m2)), 30, "auto_executed")>>

TwoLossLogs ==
  {TwoLosses(<<"2", "1">>, m1, m2) : m1 \in {300480000, 300555120}, m2 \in {300480000, 300555120}}
  \cup
  {TwoLosses(<<"2", "2">>, m1, m2) : m1 \in {600000000, 600150000}, m2 \in {600000000, 600150000}}

\* The calls of this model: <<source_campaign_id, campaigns, log, fails>>.
ImpactCases ==
  (SourceIds \X CampaignSets \X {<<>>} \X {FALSE})
  \cup ({Str(<<"2", "1">>), Str(<<"2", "2">>), Str(<<"2", "3">>)} \X {AllCampaigns}
          \X (CreativeLogs \cup LossLogs \cup TwoLossLogs) \X {FALSE})
  \cup ({Str(<<"2", "1">>)} \X {AllCampaigns} \X {<<>>} \X {TRUE})

ImpactIdle ==
  /\ impactInput = Undef
  /\ impactCampaigns = <<>>
  /\ impactLog = <<>>
  /\ impactFails = FALSE
  /\ impactResult = NoImpact

ImpactInit ==
  /\ \E c \in ImpactCases :
       /\ impactInput = c[1]
       /\ impactCampaigns = c[2]
       /\ impactLog = c[3]
       /\ impactFails = c[4]
  /\ impactResult = NoImpact

\* executeToolCall('check_reallocation_impact', input, toolContext) returns.
ImpactReturns ==
  /\ impactResult.kind = "none"
  /\ impactResult' = CheckReallocationImpact(impactInput, impactCampaigns, impactLog,
                                             impactFails)
  /\ UNCHANGED <<impactInput, impactCampaigns, impactLog, impactFails>>

ImpactNext == ImpactReturns

(***************************************************************************)
(* The HubSpot client: rateLimitGuard and hubspotRequest.  The module      *)
(* state is requestCount and windowStart; callers sleep in the guard's     *)
(* setTimeout or in the Retry-After wait of a 429 response.                *)
(***************************************************************************)
VARIABLES
  hubClock,      \* Date.now(), in ms since the module was loaded
  requestCount,  \* let requestCount
  windowStart,   \* let windowStart
  sleepers,      \* callers in a setTimeout: what they wait for, when it is due
  hubSent        \* the requests sent in the last 10 seconds: instant and number

hubVars == <<hubClock, requestCount, windowStart, sleepers, hubSent>>

\* The limit of the HubSpot API: 190 calls per 10 seconds.
HUBSPOT_LIMIT == 190

RATE_WINDOW_MS == 10000

\* The count at which the guard waits ("leave buffer below 190 limit").
GUARD_LIMIT == 180

GUARD_SLACK_MS == 100

DEFAULT_RETRIES == 2

\* Retry-After of a 429 response, in seconds ('1' when the header is absent).
RetryAfterSeconds == 1

\* The clock is read at the instants of this model: it moves by HubStepMs or
\* to the next timer, as far as MaxHubSteps * HubStepMs.
HubStepMs == 5000

MaxHubSteps == 4

\* Calls arrive in bursts: the clock does not move inside a burst.
CallsPerBurst == 60

\* The callers that can be asleep at the same time.
MaxSleepers == 2

HubInit ==
  /\ hubClock = 0
  /\ requestCount = 0
  /\ windowStart = 0
  /\ sleepers = <<>>
  /\ hubSent = <<>>

\* rateLimitGuard, first if: the window is reset when it is over.
WindowOver == hubClock - windowStart > RATE_WINDOW_MS

CountAfterReset == IF WindowOver THEN 0 ELSE requestCount

StartAfterReset == IF WindowOver THEN hubClock ELSE windowStart

\* rateLimitGuard, second if.
MustWait == CountAfterReset >= GUARD_LIMIT

waitMs == RATE_WINDOW_MS - (hubClock - StartAfterReset) + GUARD_SLACK_MS

Sleeper(kind, due, retries) == [kind |-> kind, due |-> due, retries |-> retries]

\* The requests sent at this instant.
SentNow ==
  IF hubSent # <<>> /\ hubSent[Len(hubSent)].at = hubClock
  THEN hubSent[Len(hubSent)].n
  ELSE 0

\* fetch(url, ...): one more request is sent at this instant.
Fetched ==
  IF SentNow > 0
  THEN [hubSent EXCEPT ![Len(hubSent)].n = @ + 1]
  ELSE Append(hubSent, [at |-> hubClock, n |-> 1])

\* The response: 429 with retries left puts the caller to sleep for
\* Retry-After seconds; anything else ends the call.
AfterResponse(rest, status, retries) ==
  IF status = 429 /\ retries > 0
  THEN Append(rest, Sleeper("retry", hubClock + RetryAfterSeconds * 1000, retries - 1))
  ELSE rest

Statuses == {200, 429}

\* hubspotRequest(endpoint, method, body, retries) by a caller that is not in
\* rest: the guard lets it through and the request is sent, or the guard puts
\* it to sleep.
HubspotRequestBy(rest, retries, status) ==
  /\ windowStart' = StartAfterReset
  /\ IF MustWait
     THEN /\ waitMs > 0
          /\ requestCount' = CountAfterReset
          /\ sleepers' = Append(rest, Sleeper("guard", hubClock + waitMs, retries))
          /\ UNCHANGED hubSent
     ELSE /\ requestCount' = CountAfterReset + 1
          /\ hubSent' = Fetched
          /\ sleepers' = AfterResponse(rest, status, retries)
  /\ Len(sleepers') <= MaxSleepers
  /\ UNCHANGED hubClock

\* A caller of the client calls hubspotRequest.  The timers that are due have
\* fired before the next caller runs.
hubspotRequest(status) ==
  /\ \A k \in 1..Len(sleepers) : sleepers[k].due > hubClock
  /\ HubspotRequestBy(sleepers, DEFAULT_RETRIES, status)

Without(k) == SubSeq(sleepers, 1, k - 1) \o SubSeq(sleepers, k + 1, Len(sleepers))

\* The timer of sleeper k fires: it is due, and no timer is due before it.
TimerFires(k) ==
  /\ sleepers[k].due <= hubClock
  /\ \A j \in 1..Len(sleepers) : sleepers[j].due >= sleepers[k].due
  /\ \A j \in 1..(k - 1) : sleepers[j].due > sleepers[k].due

\* The setTimeout of rateLimitGuard is over: the window is started anew, the
\* call is counted and the request is sent.
GuardWakes(k, status) ==
  /\ k \in 1..Len(sleepers)
  /\ sleepers[k].kind = "guard"
  /\ TimerFires(k)
  /\ requestCount' = 1
  /\ windowStart' = hubClock
  /\ hubSent' = Fetched
  /\ sleepers' = AfterResponse(Without(k), status, sleepers[k].retries)
  /\ UNCHANGED hubClock

\* The Retry-After wait is over: hubspotRequest is called again with
\* retries - 1.
RetryWakes(k, status) ==
  /\ k \in 1..Len(sleepers)
  /\ sleepers[k].kind = "retry"
  /\ TimerFires(k)
  /\ HubspotRequestBy(Without(k), sleepers[k].retries, status)

\* The requests sent less than 10 seconds before instant t.
RECURSIVE SentSince(_, _)
SentSince(sent, t) ==
  IF sent = <<>> THEN <<>>
  ELSE IF Head(sent).at > t - RATE_WINDOW_MS THEN sent
  ELSE SentSince(Tail(sent), t)

ClockSteps == {HubStepMs} \cup {sleepers[k].due - hubClock : k \in 1..Len(sleepers)}

\* Time passes, between two bursts of calls or while every caller sleeps, and
\* not beyond the next timer.
HubClockAdvances(d) ==
  /\ d > 0
  /\ hubClock + d <= MaxHubSteps * HubStepMs
  /\ \A k \in 1..Len(sleepers) : hubClock + d <= sleepers[k].due
  /\ SentNow % CallsPerBurst = 0 \/ (MustWait /\ Len(sleepers) = MaxSleepers)
  /\ hubClock' = hubClock + d
  /\ hubSent' = SentSince(hubSent, hubClock + d)
  /\ UNCHANGED <<requestCount, windowStart, sleepers>>

HubNext ==
  \/ \E status \in Statuses : hubspotRequest(status)
  \/ \E k \in 1..MaxSleepers, status \in Statuses : GuardWakes(k, status)
  \/ \E k \in 1..MaxSleepers, status \in Statuses : RetryWakes(k, status)
  \/ \E d \in ClockSteps : HubClockAdvances(d)

(***************************************************************************)
(* Specifications: one recommendation session; the decision queue.         *)
(***************************************************************************)
vars == <<loopVars, decideVars, clock, evalVars, histVars, impactVars, hubVars>>

Init == LoopInit /\ DecideInit /\ EvalIdle /\ HistIdle /\ ImpactIdle /\ HubInit

Next == LoopNext /\ UNCHANGED <<decideVars, clock, evalVars, histVars, impactVars, hubVars>>

Spec == Init /\ [][Next]_vars

DecideSpec == Init /\ [][DecideNext /\ UNCHANGED <<loopVars, clock, evalVars, histVars, impactVars, hubVars>>]_vars

\* The decision queue while time passes.
ExpiryNext ==
  \/ DecideNext /\ UNCHANGED <<loopVars, clock, evalVars, histVars, impactVars, hubVars>>
  \/ ClockAdvances /\ UNCHANGED <<loopVars, evalVars, histVars, impactVars, hubVars>>

ExpirySpec == Init /\ [][ExpiryNext]_vars

\* One call of evaluate_recommendation, for every input and snapshot of EvalCases.
EvalSpecInit == LoopInit /\ DecideInit /\ EvalInit /\ HistIdle /\ ImpactIdle /\ HubInit

EvalSpec ==
  EvalSpecInit /\ [][EvalNext /\ UNCHANGED <<loopVars, decideVars, clock, histVars, impactVars, hubVars>>]_vars

\* One call of get_historical_performance, for every input of HistoryInputs.
HistSpecInit == LoopInit /\ DecideInit /\ EvalIdle /\ HistInit /\ ImpactIdle /\ HubInit

HistSpec ==
  HistSpecInit
    /\ [][HistNext /\ UNCHANGED <<loopVars, decideVars, clock, evalVars, impactVars, hubVars>>]_vars

\* One call of check_reallocation_impact, for every case of ImpactCases.
ImpactSpecInit == LoopInit /\ DecideInit /\ EvalIdle /\ HistIdle /\ ImpactInit /\ HubInit

ImpactSpec ==
  ImpactSpecInit
    /\ [][ImpactNext /\ UNCHANGED <<loopVars, decideVars, clock, evalVars, histVars, hubVars>>]_vars

\* The HubSpot client: calls, timers and the clock.
HubSpec ==
  Init
    /\ [][HubNext /\ UNCHANGED <<loopVars, decideVars, clock, evalVars, histVars, impactVars>>]_vars


\* The loop under weak fairness: a call that is pending returns, a step of the
\* controller that can be taken is taken.
FairSpec == Spec /\ WF_vars(Next)

(***************************************************************************)
(* Properties of the recommendation loop and of the decision route.        *)
(***************************************************************************)

\* C1: the ToolCall log never holds more than MAX_TOOL_CALLS (5) records, at
\* every point of the run and in the result that is returned.
C1_ToolCallBudget ==
  /\ Len(toolCalls) <= MAX_TOOL_CALLS
  /\ result.set => Len(result.tool_calls) <= MAX_TOOL_CALLS

\* The budget is used up, a further tool was refused in the turn, and the
\* session has returned its result.
C1_Witness ==
  /\ pc = "done"
  /\ Len(result.tool_calls) = MAX_TOOL_CALLS
  /\ \E i \in 1..Len(toolResults) : toolResults[i] = BudgetRefusal

\* A reasoning call is started; the execution of a tool is started.
ReasoningStarted == pc = "top" /\ pc' = "reasoning"

ToolStarted ==
  /\ pc = "blocks"
  /\ \/ Len(toolCalls') > Len(toolCalls)
     \/ pc' = "thrown" /\ lastCall'.kind = "tool"

LongestCall == MaxCallTicks * TickMs

\* C2: once more than MAX_DURATION_MS (30 s) have elapsed, no reasoning call
\* and no tool execution is started, the clock of the session is advanced by
\* no further call, and the session ends at most one call after the budget.
C2_NoNewWorkAfterTimeBudget ==
  /\ [][now > MAX_DURATION_MS => ~ReasoningStarted /\ ~ToolStarted /\ now' = now]_vars
  /\ [](now <= MAX_DURATION_MS + LongestCall)

\* The session was over the time budget at the top of the loop and ended there.
C2_Witness ==
  /\ pc = "done"
  /\ now > MAX_DURATION_MS
  /\ result.skip_reason = <<"Forced termination: ", "Time budget exceeded">>

MaxTurns == MAX_DURATION_MS \div TickMs + 2

WellFormedResult ==
  /\ result.set
  /\ result.action \in {"submit", "skip"}
  /\ result.action = "skip" => result.proposals = <<>> /\ result.skip_reason # <<>>
  /\ result.tool_calls = toolCalls
  /\ result.iterations = iterations

\* C3: provided no call rejects and the calls return, every session ends,
\* after at most MaxTurns turns, with one result, Submit or Skip, that carries
\* the ToolCall log and the iteration count; the result is produced once.
C3_SessionTerminates ==
  /\ <>(pc \in {"done", "thrown"})
  /\ [](pc = "done" <=> result.set)
  /\ [](pc = "done" => WellFormedResult)
  /\ [](iterations <= MaxTurns)
  /\ [][pc = "done" => pc' = "done" /\ result' = result]_vars

\* A session of several turns that investigated and ended with a Submit.
C3_Witness ==
  /\ pc = "done"
  /\ result.action = "submit"
  /\ result.iterations >= 2
  /\ Len(result.tool_calls) >= 1

\* C4: when the reasoning call of a turn fails, the caller still receives a
\* Skip result of forced termination with the ToolCall log gathered so far.
C4_ReasoningFailureYieldsSkip ==
  (lastCall.kind = "reasoning" /\ lastCall.outcome = "failed") =>
    /\ pc = "done"
    /\ result.set
    /\ result.action = "skip"
    /\ result.tool_calls = toolCalls

ProposalViolates(p) == EvaluateViolations(EvaluateInput(p), LoopContext) # <<>>

SubmittedProposals == InputOf(lastSubmit).proposals.items

LoggedEvaluations ==
  {i \in 1..Len(toolCalls) : toolCalls[i].tool_name = "evaluate_recommendation"}

NewMutations == mutations' \ mutations

Answered(r, code) == req[r].http # code /\ req'[r].http = code

\* C6: a Google Ads mutation is made only by a request that approves an item
\* it has read as pending; writing a proposal, rejecting an item and deciding
\* on an item that is no longer pending make no mutation, and the latter
\* changes no row at all.
C6_MutationOnlyOnApproval ==
  [][/\ \A m \in NewMutations :
          /\ req[m.by].pc = "execute"
          /\ req[m.by].decision = "approved"
          /\ req[m.by].queueItem.status = "pending"
          /\ queue[m.item].status # "none"
          /\ m.item = req[m.by].decision_id
     /\ (\E i \in ItemIds : queue[i].status = "none" /\ queue'[i].status # "none")
          => NewMutations = {}
     /\ (\E r \in Requests : req'[r] # req[r] /\ req'[r].decision = "rejected")
          => NewMutations = {}
     /\ (\E r \in Requests : Answered(r, 409))
          => UNCHANGED <<queue, changeLog, mutations, notifications>>
    ]_vars

\* An approved item was executed and a second decision on it was answered 409.
C6_Witness ==
  /\ mutations # {}
  /\ \E r \in Requests :
       /\ req[r].http = 409
       /\ \E m \in mutations : m.item = req[r].decision_id /\ m.by # r

\* C7: once a terminal call of the turn has built the result, nothing of the
\* turn is executed or logged any more and the result is not replaced.
C7_TerminalCallEndsTurn ==
  [][(pc = "blocks" /\ terminalResult.set) =>
       /\ terminalResult' = terminalResult
       /\ toolCalls' = toolCalls
       /\ pc' # "thrown"]_vars

SilentReasons ==
  {<<"Forced termination: ", "Agent ended without calling a terminal tool">>,
   <<"Forced termination: ", "No tool calls in response">>}

\* C8: a response without tool calls ends the session at once: the result is
\* a Skip without proposals, with a diagnostic reason and the ToolCall log
\* gathered so far, and no reasoning call follows.
C8_NoToolCallsForcesSkip ==
  /\ []((lastCall.kind = "reasoning" /\ lastCall.outcome = "silent") =>
          /\ pc = "done"
          /\ result.set
          /\ result.action = "skip"
          /\ result.proposals = <<>>
          /\ result.skip_reason \in SilentReasons
          /\ result.tool_calls = toolCalls)
  /\ [][pc = "done" => ~ReasoningStarted /\ iterations' = iterations]_vars

\* The silent turn came after an investigation: the log returned is not empty.
C8_Witness ==
  /\ lastCall.outcome = "silent"
  /\ pc = "done"
  /\ Len(result.tool_calls) >= 1

\* C9: the execution of a tool never aborts the session.
C9_FailingToolNeverAborts == ~(pc = "thrown" /\ lastCall.kind = "tool")

BudgetExhausted == Len(toolCalls) >= MAX_TOOL_CALLS \/ now > MAX_DURATION_MS

LastResult(results) == results[Len(results)]

NonTerminalHandled ==
  /\ idx' = idx + 1
  /\ Len(toolResults') = Len(toolResults) + 1
  /\ LastResult(toolResults') # Acknowledged

TerminalHandled ==
  /\ idx' = idx + 1
  /\ toolResults' = Append(toolResults, Acknowledged)

Refused(results) ==
  \E i \in 1..Len(results) : results[i] \in {BudgetRefusal, TimeRefusal}

\* C10: with a budget exhausted, a non-terminal call is not executed and adds
\* no record; it gets an error result that asks for a terminal tool, the turn
\* goes on, and a terminal call of the turn becomes the result of the session.
C10_RefusedWhenBudgetExhausted ==
  [][/\ (pc = "blocks" /\ BudgetExhausted) =>
          /\ toolCalls' = toolCalls
          /\ now' = now
          /\ pc' # "thrown"
          /\ NonTerminalHandled =>
               /\ LastResult(toolResults') \in {BudgetRefusal, TimeRefusal}
               /\ pc' = "blocks"
     /\ (pc = "blocks" /\ Refused(toolResults)) =>
          /\ pc' # "thrown"
          /\ TerminalHandled => terminalResult'.set
          /\ (pc' = "done" /\ terminalResult.set) =>
               result' = Returned(terminalResult, toolCalls)
    ]_vars

\* A call was refused for the tool-call budget and a submit call later in the
\* same turn became the result.
C10_Witness ==
  /\ pc = "done"
  /\ result.action = "submit"
  /\ \E i \in 1..Len(toolResults) :
       /\ toolResults[i] = BudgetRefusal
       /\ \E j \in (i+1)..Len(toolResults) : toolResults[j] = Acknowledged

ToolBudgetReason == <<"Forced termination: ", "Tool call budget exceeded">>

\* C11: the call-count budget alone stops a session.  With MAX_TOOL_CALLS
\* records in the log nothing more is executed, and the next top of the loop
\* reached within the time budget returns a Skip of forced termination whose
\* log holds exactly MAX_TOOL_CALLS records.
C11_CallBudgetStopsSession ==
  /\ [][Len(toolCalls) >= MAX_TOOL_CALLS => toolCalls' = toolCalls /\ ~ToolStarted]_vars
  /\ [][(pc = "top" /\ Len(toolCalls) >= MAX_TOOL_CALLS /\ now <= MAX_DURATION_MS) =>
          /\ pc' = "done"
          /\ result'.action = "skip"
          /\ result'.proposals = <<>>
          /\ result'.skip_reason = ToolBudgetReason
          /\ Len(result'.tool_calls) = MAX_TOOL_CALLS]_vars
  /\ []((result.set /\ result.skip_reason = ToolBudgetReason) =>
          Len(result.tool_calls) = MAX_TOOL_CALLS)

\* Over several turns more tools were requested than the budget allows, the
\* surplus was refused, and the session was ended by the call count, in time.
C11_Witness ==
  /\ pc = "done"
  /\ result.skip_reason = ToolBudgetReason
  /\ now <= MAX_DURATION_MS
  /\ iterations >= 3
  /\ \E i \in 1..Len(toolResults) : toolResults[i] = BudgetRefusal

TerminalTools == {"submit_recommendations", "skip_recommendations"}

\* C12: every tool call the controller handles is a record of the ToolCall
\* log: the terminal call that ended the session is in the log of the result.
C12_TerminalCallLogged ==
  (pc = "done" /\ terminalResult.set) =>
    \E i \in 1..Len(result.tool_calls) : result.tool_calls[i].tool_name \in TerminalTools

WellFormedProposal(p) == p.action_type # UNDEFINED /\ p.action_detail.defined

WellFormedSubmit(input) ==
  /\ input.proposals.defined
  /\ \A i \in 1..Len(input.proposals.items) : WellFormedProposal(input.proposals.items[i])

\* C13: a submit_recommendations call with a malformed payload (no proposals
\* list, a proposal without a required field) never yields a Submit result.
C13_MalformedSubmitYieldsSkip ==
  (result.set /\ result.action = "submit") => WellFormedSubmit(InputOf(lastSubmit))

\* C14: no executed adjust_budget or reallocate_budget action writes a daily
\* budget under $25 to Google Ads.
C14_NoBudgetWrittenBelowFloor ==
  \A m \in mutations : m.amount_micros >= Dollars(BUDGET_FLOOR_DOLLARS)

Expired(row) == clock > row.expires_at

\* C15: an item past its expires_at is no longer pending, and an approve
\* request that arrives after that time does not execute the action.
C15_PendingItemsExpire ==
  /\ [](\A i \in ItemIds : queue[i].status = "pending" => ~Expired(queue[i]))
  /\ [][\A m \in NewMutations : req[m.by].now <= req[m.by].queueItem.expires_at]_vars

(***************************************************************************)
(* The guardrail rules of evaluate_recommendation (EvalSpec).              *)
(***************************************************************************)
EvalDetail == evalInput.action_detail.f

Reported(rule) ==
  \E i \in 1..Len(evalResult.violations) : evalResult.violations[i].rule = rule

\* v is an amount: a number, or a string of digits.
IsAmount(v) == v.t = "number" \/ (v.t = "string" /\ IsDigits(v.s))

AmountOf(v) == IF v.t = "number" THEN v.n ELSE DigitsToNat(v.s)

\* C16: for an adjust_budget action with a proposed amount (0 included), the
\* evaluation reports a budget-floor violation if and only if the amount is
\* below $25 a day.
C16_BudgetFloorIffBelow ==
  (/\ evalResult.state = "returned"
   /\ evalInput.action_type = "adjust_budget"
   /\ IsAmount(EvalDetail["new_amount_micros"]))
  => (Reported("budget_floor")
        <=> AmountOf(EvalDetail["new_amount_micros"]) < Dollars(BUDGET_FLOOR_DOLLARS))

\* text has the term at some position (letter case aside).
ContainsTerm(text, term) ==
  \E k \in 1..(Len(text) - Len(term) + 1) :
     SubSeq(ToLowerCase(text), k, k + Len(term) - 1) = term

\* The keyword text of the call contains a term of the vocabulary.
TargetsStrategicKeyword ==
  /\ EvalDetail["keyword_text"].t = "string"
  /\ \E i \in 1..Len(INDUSTRY_TERMS) :
       ContainsTerm(EvalDetail["keyword_text"].s, INDUSTRY_TERMS[i])

\* C17: an evaluation reports a protected-keyword violation exactly for a
\* pause_keyword or add_negative_keyword action whose keyword text contains a
\* term of the strategic-industry vocabulary.
C17_ProtectedKeywordRule ==
  evalResult.state = "returned"
  => (Reported("keyword_rehabilitation")
        <=> (/\ evalInput.action_type \in {"pause_keyword", "add_negative_keyword"}
             /\ TargetsStrategicKeyword))

C17_Witness ==
  /\ evalResult.state = "returned"
  /\ evalInput.action_type = "add_negative_keyword"
  /\ EvalDetail["keyword_text"] = Str(<<"d", "a", "i", "r", "y", " ", "p", "r", "o", "c", "e", "s", "s", "i", "n", "g", " ", "s", "o", "f", "t", "w", "a", "r", "e">>)
  /\ Reported("keyword_rehabilitation")
  /\ ~evalResult.passes

ReportedInvalidId(field) ==
  \E i \in 1..Len(evalResult.violations) :
     evalResult.violations[i] = Violation("invalid_id", field)

\* v is a non-empty string of digits.
IsDigitString(v) ==
  v.t = "string" /\ Len(v.s) > 0 /\ \A i \in 1..Len(v.s) : IsDigit(v.s[i])

\* C18: for each identifier field present in action_detail, the evaluation
\* reports an invalid-identifier violation unless the value is a non-empty
\* string of digits.
C18_IdentifierValidity ==
  evalResult.state = "returned"
  => \A k \in 1..Len(idFields) :
       EvalDetail[idFields[k]] # Undef
       => (ReportedInvalidId(idFields[k]) <=> ~IsDigitString(EvalDetail[idFields[k]]))

BID_CAP_PERCENT == 20

\* The keywords of the session's snapshot that the action names and whose
\* current bid is known.
CurrentKeywords ==
  {i \in 1..Len(evalLayer1.keywords) :
     /\ Str(evalLayer1.keywords[i].criterionId) = EvalDetail["criterion_id"]
     /\ IsAmount(evalLayer1.keywords[i].cpcBidMicros)}

ExceedsBidCap(new, current) ==
  LET delta == IF new >= current THEN new - current ELSE current - new
  IN delta * 100 > BID_CAP_PERCENT * current

ReportedOnField(field) ==
  \E i \in 1..Len(evalResult.violations) : evalResult.violations[i].field = field

RECURSIVE EnabledAds(_, _)
EnabledAds(group, n) ==
  IF n = 0 THEN 0
  ELSE EnabledAds(group, n - 1)
       + (IF evalLayer1.ads[n].adGroupId = group /\ evalLayer1.ads[n].status = "ENABLED"
          THEN 1 ELSE 0)

\* The enabled ads of the ad group the action targets.
TargetEnabledAds ==
  EnabledAds(ToStr(EvalDetail["ad_group_id"]), Len(evalLayer1.ads))

\* C20: an evaluation reports a last-active-ad violation exactly for a pause_ad
\* action whose target ad group has at most one enabled ad in the snapshot.
C20_LastActiveAdRule ==
  evalResult.state = "returned"
  => (Reported("last_active_ad")
        <=> (evalInput.action_type = "pause_ad" /\ TargetEnabledAds <= 1))

C20_Witness ==
  /\ evalResult.state = "returned"
  /\ evalInput.action_type = "pause_ad"
  /\ TargetEnabledAds = 1
  /\ Len(evalLayer1.ads) > 1
  /\ Reported("last_active_ad")
  /\ ~evalResult.passes

\* v is a non-empty string that is not a string of digits.
IsNonNumericString(v) == v.t = "string" /\ Len(v.s) > 0 /\ ~IsDigitString(v)

\* The campaign of the snapshot that a pause_campaign action names has
\* conversions.
TargetCampaignConverts ==
  \E i \in 1..Len(evalLayer1.campaigns) :
     /\ evalLayer1.campaigns[i].campaignId = ToStr(EvalDetail["campaign_id"])
     /\ evalLayer1.campaigns[i].conversions > 0

\* C21: one evaluation reports the violation of every rule the action breaks,
\* whatever other rules it breaks, reports none twice, and passes exactly when
\* the list of violations is empty.
C21_EveryViolationReported ==
  evalResult.state = "returned"
  => /\ evalResult.passes <=> (evalResult.violations = <<>>)
     /\ (/\ evalInput.action_type = "adjust_budget"
         /\ IsDigitString(EvalDetail["new_amount_micros"])
         /\ AmountOf(EvalDetail["new_amount_micros"]) < Dollars(BUDGET_FLOOR_DOLLARS))
        => Reported("budget_floor")
     /\ (/\ evalInput.action_type \in {"pause_keyword", "add_negative_keyword"}
         /\ TargetsStrategicKeyword)
        => Reported("keyword_rehabilitation")
     /\ (evalInput.action_type = "pause_campaign" /\ TargetCampaignConverts)
        => Reported("pause_campaign_with_conversions")
     /\ (evalInput.action_type = "pause_ad" /\ TargetEnabledAds <= 1)
        => Reported("last_active_ad")
     /\ \A k \in 1..Len(idFields) :
          IsNonNumericString(EvalDetail[idFields[k]]) => ReportedInvalidId(idFields[k])
     /\ \A i, j \in 1..Len(evalResult.violations) :
          evalResult.violations[i] = evalResult.violations[j] => i = j

\* pause_keyword on a protected keyword with a non-numeric criterion_id: both
\* violations are reported.
C21_Witness ==
  /\ evalResult.state = "returned"
  /\ evalInput.action_type = "pause_keyword"
  /\ EvalDetail["keyword_text"] = Str(<<"d", "a", "i", "r", "y", " ", "p", "r", "o", "c", "e", "s", "s", "i", "n", "g", " ", "s", "o", "f", "t", "w", "a", "r", "e">>)
  /\ EvalDetail["criterion_id"] = Str(<<"a", "b", "c">>)
  /\ Len(evalResult.violations) = 2
  /\ Reported("keyword_rehabilitation")
  /\ ReportedInvalidId("criterion_id")
  /\ ~evalResult.passes

(***************************************************************************)
(* get_historical_performance (HistSpec).                                  *)
(***************************************************************************)
\* The call supplies the field: it is there and is not the empty string.
Supplied(v) == v # Undef /\ v # Str(<<>>)

\* C25: a call of get_historical_performance that supplies neither
\* campaign_id nor keyword_text, or that supplies both, returns an {error}
\* result and no performance data.
C25_ExactlyOneIdentifier ==
  (/\ histResult.kind # "none"
   /\ Supplied(histInput.campaign_id) <=> Supplied(histInput.keyword_text))
  => histResult.kind = "error"

(***************************************************************************)
(* check_reallocation_impact (ImpactSpec).                                 *)
(***************************************************************************)
\* The rows of the account's campaigns with the identifier.
CampaignRows(id) ==
  {i \in 1..Len(impactCampaigns) : impactCampaigns[i].campaignId = id}

\* C22: every campaign returned in potential_targets has the brand/non-brand
\* classification of the source campaign, and is not the source.
C22_BrandIsolation ==
  impactResult.kind = "impact"
  => \A t \in 1..Len(impactResult.potential_targets) :
       /\ Str(impactResult.potential_targets[t].campaignId) # impactInput
       /\ \A i \in CampaignRows(impactResult.potential_targets[t].campaignId) :
            \A j \in CampaignRows(impactInput.s) :
               impactCampaigns[i].isBrand = impactCampaigns[j].isBrand

\* A brand source with two targets or more, in an account that also has a
\* non-brand campaign.
C22_Witness ==
  /\ impactResult.kind = "impact"
  /\ impactResult.source.isBrand
  /\ Len(impactResult.potential_targets) >= 2
  /\ \E i \in 1..Len(impactCampaigns) : ~impactCampaigns[i].isBrand

\* A new-ad-creative action was executed against the source campaign within
\* the last 14 days.
CreativeExecutedOnSource ==
  \E i \in 1..Len(impactLog) :
     /\ impactLog[i].action_type = "create_ad"
     /\ impactLog[i].outcome \in {"executed", "auto_executed"}
     /\ impactLog[i].age <= CREATIVE_WINDOW_DAYS
     /\ Str(impactLog[i].data_used.campaign_id) = impactInput

Warned(warning) ==
  \E i \in 1..Len(impactResult.warnings) : impactResult.warnings[i] = warning

\* C23: the source is reported as having new creatives, and the
\* creative-protection warning is emitted, exactly when a new-ad-creative
\* action was executed against the source campaign within the last 14 days.
C23_CreativeProtectionWindow ==
  impactResult.kind = "impact"
  => /\ impactResult.source.hasNewCreatives <=> CreativeExecutedOnSource
     /\ Warned("creative_protection") <=> CreativeExecutedOnSource

\* The micros that row i of the change log removed from the source campaign:
\* an executed reallocation or budget adjustment of the last 60 days.
RemovedByRow(i) ==
  IF /\ impactLog[i].action_type \in {"reallocate_budget", "adjust_budget"}
     /\ impactLog[i].outcome \in {"executed", "auto_executed"}
     /\ impactLog[i].age <= LOSS_WINDOW_DAYS
     /\ Str(impactLog[i].data_used.from_campaign_id) = impactInput
     /\ IsAmount(impactLog[i].data_used.amount_micros)
  THEN AmountOf(impactLog[i].data_used.amount_micros)
  ELSE 0

RECURSIVE RemovedFromSource(_)
RemovedFromSource(n) ==
  IF n = 0 THEN 0 ELSE RemovedFromSource(n - 1) + RemovedByRow(n)

\* The daily budget of the source campaign, in micros.
SourceBudgetMicros ==
  impactCampaigns[CHOOSE i \in CampaignRows(impactInput.s) : TRUE].dailyBudgetMicros

\* More than 40% of the 60-day budget was removed: 40% of 60 daily budgets are
\* 24 daily budgets.
RemovedOverThreshold ==
  RemovedFromSource(Len(impactLog))
    > ((LOSS_THRESHOLD_PERCENT * LOSS_WINDOW_DAYS) \div 100) * SourceBudgetMicros

\* C24: exceeds_40pct_threshold is true, and the cumulative-loss warning is
\* emitted, exactly when the budget removed from the source in the last 60
\* days is strictly more than 40% of its 60-day budget.
C24_CumulativeLossFlag ==
  impactResult.kind = "impact"
  => /\ impactResult.exceeds_40pct_threshold <=> RemovedOverThreshold
     /\ Warned("cumulative_loss") <=> RemovedOverThreshold

\* C26: the check at the top of a turn ends the session only when a budget is
\* exceeded.  With exactly MAX_TOOL_CALLS records in the log and time left, the
\* next step of the loop invokes the reasoning step again, so that it can call
\* a terminal tool.
C26_FullLogStillReasons ==
  [][(pc = "top" /\ Len(toolCalls) = MAX_TOOL_CALLS /\ now <= MAX_DURATION_MS)
       => pc' = "reasoning"]_vars

\* The requests whose mutate calls for item i Google Ads has applied.
ExecutedBy(i) == {m.by : m \in {x \in mutations : x.item = i}}

\* The requests for item i that were answered with the given status code.
AnsweredWith(i, code) ==
  {r \in Requests : /\ req[r].pc = "responded"
                    /\ req[r].decision_id = i
                    /\ req[r].http = code}

\* C27: under any interleaving of decide requests for the same queue item, the
\* item's Google Ads action is executed by at most one request and at most one
\* request is accepted.
C27_ExecutedAtMostOnce ==
  \A i \in ItemIds :
    /\ Cardinality(ExecutedBy(i)) <= 1
    /\ Cardinality(AnsweredWith(i, 200)) <= 1

\* An approve request for item i has been handled to the end and its Google
\* Ads execution failed: the change-log row holds the outcome 'approved'
\* (a successful execution writes 'executed'), and no request is in flight.
FailedApproval(i) ==
  /\ changeLog[i] = "approved"
  /\ \A r \in Requests : req[r].pc \in {"idle", "responded"}

\* Request r takes up an approve request for item i in this step.
ApproveArrives(r, i) ==
  /\ req[r].pc = "idle"
  /\ req'[r].pc # "idle"
  /\ req'[r].decision_id = i
  /\ req'[r].decision = "approved"

\* C28: an approved item whose execution failed can be retried: a later
\* approve request for the same item is accepted and attempts the execution
\* again.
C28_FailedApprovalRetried ==
  [][\A r \in Requests, i \in ItemIds :
       (FailedApproval(i) /\ ApproveArrives(r, i)) => req'[r].pc = "execute"]_vars

(***************************************************************************)
(* The decide route on the reallocations of the weekly budget route: the   *)
(* queue holds reallocate_budget items only.                               *)
(***************************************************************************)

\* The reallocations written to the queue: action_detail is the proposal of
\* the analysis, which has from_budget_id, to_budget_id and amount_micros
\* and no new absolute amounts; a plan with both new amounts; and a plan with
\* the target's new amount only.
ReallocationProposals ==
  {QueueProposal("reallocate_budget", 0, 0, 0),
   QueueProposal("reallocate_budget", 0, Dollars(30), Dollars(40)),
   QueueProposal("reallocate_budget", 0, 0, Dollars(40))}

ReallocNext ==
  \/ \E i \in ItemIds, p \in ReallocationProposals : WriteProposal(i, p)
  \/ \E r \in Requests : DecideBadRequest(r)
  \/ \E r \in Requests, id \in ItemIds \cup {0}, d \in Decisions : DecideNotFound(r, id, d)
  \/ \E r \in Requests, id \in ItemIds, d \in Decisions : DecideConflict(r, id, d)
  \/ \E r \in Requests, id \in ItemIds, d \in Decisions : DecideFetched(r, id, d)
  \/ \E r \in Requests : ExecuteMutation(r)
  \/ \E r \in Requests : ExecuteFails(r)
  \/ \E r \in Requests : ExecuteReturns(r)
  \/ \E r \in Requests : UpdateQueue(r)
  \/ \E r \in Requests : UpdateQueueFails(r)
  \/ \E r \in Requests, ok \in BOOLEAN : FinishDecision(r, ok)

ReallocSpec ==
  Init /\ [][ReallocNext /\ UNCHANGED <<loopVars, clock, evalVars, histVars, impactVars, hubVars>>]_vars

\* The mutate calls of item i that Google Ads has applied: 1 is the first call
\* of a request, 2 its second.
AppliedCalls(i) == {m.call : m \in {x \in mutations : x.item = i}}

\* Both budgets of the reallocation were changed: the decrease of the source
\* and the increase of the target.
BothMutationsApplied(i) == {1, 2} \subseteq AppliedCalls(i)

\* No request for item i is being handled.
Settled(i) ==
  \A r \in Requests : req[r].decision_id = i => req[r].pc \in {"idle", "responded"}

\* C29: a reallocate_budget item is recorded as executed only if both budget
\* mutations were applied, and once its requests are handled it is never left
\* with a mutation applied and not recorded as executed.
C29_ReallocationAllOrNothing ==
  \A i \in ItemIds :
    queue[i].action_type = "reallocate_budget" =>
      /\ changeLog[i] = "executed" => BothMutationsApplied(i)
      /\ (Settled(i) /\ AppliedCalls(i) # {}) => changeLog[i] = "executed"

\* The requests sent in the 10 seconds that end now.
RECURSIVE SentTotal(_)
SentTotal(sent) == IF sent = <<>> THEN 0 ELSE Head(sent).n + SentTotal(Tail(sent))

\* C30: for every timing and interleaving of hubspotRequest calls, no more
\* than 190 requests are sent within any 10-second interval.
C30_RateLimitRespected == SentTotal(hubSent) <= HUBSPOT_LIMIT

=============================================================================
